---- MODULE Spec2Model ----
(***************************************************************************)
(* Client-side transaction engine of the Octra web wallet:                 *)
(*   - useWalletBalance / getCombinedNonce   (src/hooks/use-wallet-data.ts)*)
(*   - useSendTransaction.sendTransaction    (src/hooks/use-wallet-data.ts)*)
(*   - SendDialog.handleConfirm and friends  (send-dialog.tsx)             *)
(*   - the relay POST                        (src/app/api/proxy/route.ts)  *)
(*                                                                         *)
(* Optional JavaScript values (undefined | v) are sequences of length <= 1:*)
(* <<>> is undefined, <<v>> is v.  Amounts and balances are whole numbers  *)
(* of OCT; the raw amount of a transaction is in micro-units.              *)
(*                                                                         *)
(* A wallet is connected throughout (the early returns on !wallet are not  *)
(* taken).  Recipients enter the dialog through handleBatchImport; the     *)
(* manual editing of single rows produces the same lists.  A continuation  *)
(* after an await runs to its next await in one step, as one JavaScript    *)
(* task does.                                                              *)
(***************************************************************************)
EXTENDS Integers, Sequences, FiniteSets, TLC

\* ------------------------------------------------------------------ bounds
\* size of one run: every intent (recipient) handed to handleConfirm counts 1,
\* every event around it counts BATCH_SIZE: a submission that is not accepted,
\* an accepted one whose answer is late, a periodic refresh of the staging
\* cache, an epoch finalised by the ledger, the balance spent elsewhere, the
\* user closing the dialog
MaxWork == 11
\* snapshots drawn for the Nonce Oracle: pool length and nonce range
MaxPool == 2
MaxNonce == 3
\* the longest recipient list when every shape of answer is told apart
MaxShapeIntents == 2
\* the most confirmed references the address request answers with
MaxRefs == 2

\* ------------------------------------------------------- program constants
BATCH_SIZE == 5
\* the longest recipient list: one full batch and a shorter last one
MaxIntents == MaxWork - BATCH_SIZE
MICRO == 1000000

Wallet == "oct_wallet"
OtherWallet == "oct_other"

Undefined == <<>>
Some(v) == <<v>>
IsDef(o) == o # <<>>
Val(o) == o[1]

Max2(a, b) == IF a >= b THEN a ELSE b
Min2(a, b) == IF a <= b THEN a ELSE b

\* Math.max(...xs) over a non-empty sequence of numbers
RECURSIVE MathMax(_)
MathMax(xs) ==
    IF Len(xs) = 1 THEN xs[1] ELSE Max2(xs[1], MathMax(Tail(xs)))

\* Array.prototype.filter with the predicate tx.from === addr
RECURSIVE FilterFrom(_, _)
FilterFrom(txs, addr) ==
    IF txs = <<>> THEN <<>>
    ELSE IF txs[1].from = addr
         THEN <<txs[1]>> \o FilterFrom(Tail(txs), addr)
         ELSE FilterFrom(Tail(txs), addr)

\* the predicate of the filter in getCombinedNonce, without the comparison
\* with the wallet address: every staged transaction counts
FilterFromAnyone(txs, addr) == txs

\* stagingData.staged_transactions.filter(tx => tx.from === wallet.address)
OurStagedTxs(txs, addr) == FilterFrom(txs, addr)

NoncesOf(txs) == [i \in 1..Len(txs) |-> txs[i].nonce]

\* getCombinedNonce(): the value before the final "|| 0"
\*   bd : balanceData  (Undefined | <<[balance, nonce]>>, nonce optional)
\*   sd : stagingData  (Undefined | <<[staged_transactions]>>)
GetCombinedNonce(bd, sd) ==
    IF ~IsDef(bd)
    THEN Undefined                                   \* balanceData?.nonce
    ELSE LET baseNonce == IF IsDef(Val(bd).nonce) THEN Val(Val(bd).nonce) ELSE 0
             ours == IF IsDef(sd)
                     THEN OurStagedTxs(Val(sd).staged_transactions, Wallet)
                     ELSE <<>>
         IN  IF Len(ours) > 0
             THEN Some(Max2(baseNonce, MathMax(NoncesOf(ours))))
             ELSE Some(baseNonce)

\* useWalletBalance().nonce : getCombinedNonce() || 0
WalletNonce(bd, sd) ==
    LET n == GetCombinedNonce(bd, sd)
    IN  IF IsDef(n) /\ Val(n) # 0 THEN Val(n) ELSE 0

\* useWalletBalance().balance : balanceData?.balance || 0
WalletBalance(bd) == IF IsDef(bd) THEN Val(bd).balance ELSE 0

\* ------------------------------------------------ sendTransaction: results
NoResult == [success |-> FALSE, txHash |-> Undefined, error |-> Undefined]
Failure(msg) == [success |-> FALSE, txHash |-> Undefined, error |-> Some(msg)]
Success(h) == [success |-> TRUE, txHash |-> Some(h), error |-> Undefined]

Pending == [status |-> "pending", value |-> NoResult]
Fulfilled(v) == [status |-> "fulfilled", value |-> v]

\* an exception of the try block that escapes sendTransaction: the promise
\* rejects instead of resolving to a Failure
Uncaught(msg) == [status |-> "rejected", value |-> Failure(msg)]

\* catch (error) { setIsLoading(false); return {success: false, error: ...} }
Caught(msg) == Fulfilled(Failure(msg))

InsufficientBalance == "Insufficient balance"
KeyErrorText == "Invalid private key"
FetchFailedText == "Failed to fetch"
TransactionFailedText == "Transaction failed"
ProxyErrorText == "An unexpected error occurred in the proxy."
TimeoutDetails == "The operation was aborted due to timeout"
UpstreamErrorText == "upstream error"
RejectedJson == "{\"status\":\"rejected\"}"
EmptyJson == "{}"
AcceptedJson == "{\"status\":\"accepted\"}"
LegacyTextJson == "\"error <token>\""
LegacyBlankJson == "\"ok \""

\* const currentNonce = _nonce ?? nonce ?? 0   (nonce is always a number)
CurrentNonce(_nonce, nonce) == IF IsDef(_nonce) THEN Val(_nonce) ELSE nonce

\* nonce: _nonce ? _nonce : currentNonce + 1   (0 and undefined are falsy)
SignedNonce(_nonce, currentNonce) ==
    IF IsDef(_nonce) /\ Val(_nonce) # 0 THEN Val(_nonce) ELSE currentNonce + 1

\* String(Math.floor(amount * 1_000_000)), for a whole number of OCT
AmountRaw(amount) == amount * MICRO

\* one call of sendTransaction: where it stands (st), its closure variable
\* currentNonce, the signed transaction it sent (tx), what the ledger did with
\* it (up), the relay's answer (resp) and the settlement of its promise
IdleCall ==
    [currentNonce |-> 0, st |-> "idle", tx |-> Undefined,
     up |-> Undefined, resp |-> Undefined, result |-> Pending]

\* sendTransaction up to its first await (lines 252-300): the early returns,
\* key derivation, signing and the dispatch of fetch('/api/proxy').
\*   st = "done"     : the promise is already settled (result)
\*   st = "inflight" : the request tx is on its way to the relay
SendTransactionSync(to, amount, _nonce, nonce, balance, keyOk, clock) ==
    LET currentNonce == CurrentNonce(_nonce, nonce)
    IN  IF balance < amount
        THEN [IdleCall EXCEPT !.st = "done", !.currentNonce = currentNonce,
                              !.result = Fulfilled(Failure(InsufficientBalance))]
        ELSE IF ~keyOk
        THEN [IdleCall EXCEPT !.st = "done", !.currentNonce = currentNonce,
                              !.result = Caught(KeyErrorText)]
        ELSE [IdleCall EXCEPT
                !.st = "inflight", !.currentNonce = currentNonce,
                !.tx = Some([from |-> Wallet, to_ |-> to,
                             amount |-> AmountRaw(amount),
                             nonce |-> SignedNonce(_nonce, currentNonce),
                             timestamp |-> clock])]

\* ---------------------------------------------------------------- the relay
\* What the ledger's /send-tx endpoint does with a forwarded request:
\*   "accepted"   200 {status: "accepted", tx_hash}
\*   "rejected"   200 with another shape
\*   "http_error" a non-OK status with a JSON body {error}
\*   "timeout"    no answer within AbortSignal.timeout(10000)
UpstreamKinds == {"accepted", "rejected", "http_error", "timeout"}

\* Further answers with status 200:
\*   "accepted_nohash"  {status: "accepted"} without tx_hash
\*   "legacy_..."       a JSON string "<word> <token>": its first word, and
\*                      its trailing token, the hash; "legacy_blank" is
\*                      "ok " (the trailing token is empty)
LegacyWord ==
    [legacy_ok |-> "ok", legacy_upper |-> "OK", legacy_blank |-> "ok",
     legacy_error |-> "error"]
LegacyAccepts == {"legacy_ok", "legacy_upper"}
OtherRefusals == {"accepted_nohash", "legacy_blank", "legacy_error"}

\* result.toLowerCase().startsWith('ok'), for the words above
ToLowerCase(word) == IF word = "OK" THEN "ok" ELSE word
StartsWithOk(word) == ToLowerCase(word) = "ok"

Upstream(kind, hash) ==
    CASE kind = "accepted" ->
           [threw |-> FALSE, ok |-> TRUE, status |-> 200,
            body |-> [status |-> "accepted", tx_hash |-> Some(hash),
                      error |-> Undefined, text |-> Undefined]]
      [] kind = "rejected" ->
           [threw |-> FALSE, ok |-> TRUE, status |-> 200,
            body |-> [status |-> "rejected", tx_hash |-> Undefined,
                      error |-> Undefined, text |-> Undefined]]
      [] kind = "http_error" ->
           [threw |-> FALSE, ok |-> FALSE, status |-> 400,
            body |-> [status |-> "", tx_hash |-> Undefined,
                      error |-> Some(UpstreamErrorText), text |-> Undefined]]
      [] kind = "accepted_nohash" ->
           [threw |-> FALSE, ok |-> TRUE, status |-> 200,
            body |-> [status |-> "accepted", tx_hash |-> Undefined,
                      error |-> Undefined, text |-> Undefined]]
      [] kind \in DOMAIN LegacyWord ->
           [threw |-> FALSE, ok |-> TRUE, status |-> 200,
            body |-> [status |-> "", tx_hash |-> Undefined, error |-> Undefined,
                      text |-> Some([word |-> LegacyWord[kind],
                                     last |-> IF kind = "legacy_blank"
                                              THEN Undefined ELSE Some(hash)])]]
      [] OTHER ->
           [threw |-> TRUE, ok |-> FALSE, status |-> 0,
            body |-> [status |-> "", tx_hash |-> Undefined,
                      error |-> Some(TimeoutDetails), text |-> Undefined]]

\* the relay's catch block answering with the exception's own message
ProxyCatchMessage(details) ==
    [ok |-> FALSE, status |-> 500,
     body |-> [status |-> "", tx_hash |-> Undefined, error |-> Some(details),
               text |-> Undefined]]

\* catch (error) { return NextResponse.json({error: 'An unexpected error
\* occurred in the proxy.', details: error.message}, {status: 500}) }
ProxyCatch(details) ==
    [ok |-> FALSE, status |-> 500,
     body |-> [status |-> "", tx_hash |-> Undefined,
               error |-> Some(ProxyErrorText), text |-> Undefined]]

\* POST of route.ts for a request that names rpcUrl and endpoint: the answer
\* the client's fetch('/api/proxy') resolves to
ProxyPOST(up) ==
    IF up.threw THEN ProxyCatch(Val(up.body.error))
    ELSE IF ~up.ok THEN [ok |-> FALSE, status |-> up.status, body |-> up.body]
    ELSE [ok |-> TRUE, status |-> 200, body |-> up.body]

\* JSON.stringify(result) of a response body
JsonStringify(body) ==
    IF IsDef(body.text)
    THEN (IF IsDef(Val(body.text).last) THEN LegacyTextJson ELSE LegacyBlankJson)
    ELSE IF body.status = "rejected" THEN RejectedJson
    ELSE IF body.status = "accepted" THEN AcceptedJson
    ELSE EmptyJson

\* sendTransaction with the test of the string's beginning left out: every
\* string answer counts as accepted
ResultOfAnyString(resp) ==
    IF ~resp.ok
    THEN Failure(IF IsDef(resp.body.error) THEN Val(resp.body.error)
                 ELSE TransactionFailedText)
    ELSE LET isObject == ~IsDef(resp.body.text)
             success == \/ isObject /\ resp.body.status = "accepted"
                        \/ ~isObject
             txHash == IF isObject THEN resp.body.tx_hash
                       ELSE Val(resp.body.text).last
         IN  IF success /\ IsDef(txHash)
             THEN Success(Val(txHash))
             ELSE Failure(JsonStringify(resp.body))

\* sendTransaction after the response arrived (lines 301-373): the result it
\* returns
ResultOfResponse(resp) ==
    IF ~resp.ok
    THEN Failure(IF IsDef(resp.body.error) THEN Val(resp.body.error)
                 ELSE TransactionFailedText)
    ELSE LET isObject == ~IsDef(resp.body.text)
             accepted == isObject /\ resp.body.status = "accepted"
             legacyOk == ~isObject /\ StartsWithOk(Val(resp.body.text).word)
             success == accepted \/ legacyOk
             \* result.tx_hash, or result.split(' ').pop()
             txHash == IF accepted THEN resp.body.tx_hash
                       ELSE IF legacyOk THEN Val(resp.body.text).last
                       ELSE Undefined
         IN  IF success /\ IsDef(txHash)
             THEN Success(Val(txHash))
             ELSE Failure(JsonStringify(resp.body))

\* newStagedTx of the optimistic update (lines 328-335)
NewStagedTx(to, amount, currentNonce, tx, txHash, clock) ==
    [from |-> Wallet, to |-> to, amount |-> AmountRaw(amount),
     nonce |-> currentNonce + 1, hash |-> txHash, timestamp |-> clock]

StagedOf(sd) == IF IsDef(sd) THEN Val(sd).staged_transactions ELSE <<>>

\* the updater passed to mutate(stagingKey, ...) (lines 325-347)
MutateStaging(sd, entry) ==
    Some([staged_transactions |-> <<entry>> \o StagedOf(sd)])

\* the entry the ledger keeps in its pending pool for an accepted request
PoolEntry(tx, hash) ==
    [from |-> tx.from, to |-> tx.to_, amount |-> tx.amount,
     nonce |-> tx.nonce, hash |-> hash, timestamp |-> tx.timestamp]

\* ------------------------------------------------------------------- state
VARIABLES
    srvNonce,           \* ledger: confirmed nonce of the wallet
    srvPool,            \* ledger: pending pool (staged transactions)
    srvBalance,         \* ledger: balance of the wallet
    balanceData,        \* SWR cache of /balance/<address>
    stagingData,        \* SWR cache of /staging
    balanceRevalidate,  \* mutate(balanceKey) asked for a revalidation
    rendered,           \* useWalletBalance() of the last render
    keyOk,              \* getKeyPair(wallet.privateKey) does not throw
    addressData,        \* SWR cache of /address/<address>?limit=20
    addressError,       \* the error of that request, if its last fetch threw
    addressLoading,     \* its isLoading flag
    transactionDetails, \* SWR cache of ['transaction-details', hashes]
    detailsLoading,     \* its isLoading flag
    detailAnswers,      \* ledger: its answers to the /tx/<hash> requests
    isLoading,          \* useSendTransaction: useState(false)
    open, step, recipients, results, progress,   \* SendDialog state
    resetPending,       \* setTimeout(resetDialog, 200) not yet fired
    passes,             \* the handleConfirm calls, in order of their start
    events,             \* events of the environment so far
    now,                \* the clock read by Date.now()
    relayed,            \* the requests the relay has answered, with its
                        \* upstream calls and its responses
    parsedAmounts,      \* parseAmount applied to the strings of an amount
    directCalls         \* calls of sendTransaction made outside the dialog

cacheVars == <<balanceData, stagingData, balanceRevalidate, rendered>>
ledgerVars == <<srvNonce, srvPool, srvBalance>>
dialogVars == <<open, step, recipients, results, progress, resetPending>>
historyVars == <<addressData, addressError, addressLoading,
                 transactionDetails, detailsLoading, detailAnswers>>
appliedVars == <<relayed, parsedAmounts, directCalls>>
vars == <<srvNonce, srvPool, srvBalance, balanceData, stagingData,
          balanceRevalidate, rendered, keyOk, historyVars, appliedVars, isLoading,
          open, step, recipients, results, progress, resetPending,
          passes, events, now>>

\* the values useWalletBalance() returns for the cached data
UseWalletBalance(bd, sd) ==
    [balance |-> WalletBalance(bd), nonce |-> WalletNonce(bd, sd),
     isLoading |-> ~IsDef(bd) \/ ~IsDef(sd)]

\* ------------------------------------------------------------ user inputs
ValidAddresses == {"oct_a", "oct_b", "oct_c"}
AddressOf(i) == <<"oct_a", "oct_b", "oct_c">>[((i - 1) % 3) + 1]
AmountOf(i) == IF i = 1 THEN <<"2">> ELSE <<"1">>

\* the text of an amount is the sequence of its characters; parseFloat reads
\* the longest leading numeral of a text, and gives NaN (Undefined) when
\* there is none. The texts here carry whole numbers: an optional minus sign
\* and digits, then whatever follows.
DigitChars == <<"0", "1", "2", "3", "4", "5", "6", "7", "8", "9">>
IsDigit(c) == \E d \in 1..10 : DigitChars[d] = c
DigitValue(c) == (CHOOSE d \in 1..10 : DigitChars[d] = c) - 1

RECURSIVE LeadingDigits(_)
LeadingDigits(text) ==
    IF text # <<>> /\ IsDigit(text[1])
    THEN <<text[1]>> \o LeadingDigits(Tail(text))
    ELSE <<>>

RECURSIVE NumeralValue(_)
NumeralValue(ds) ==
    IF ds = <<>> THEN 0
    ELSE 10 * NumeralValue(SubSeq(ds, 1, Len(ds) - 1)) + DigitValue(ds[Len(ds)])

ParseFloat(text) ==
    LET negative == text # <<>> /\ text[1] = "-"
        ds == LeadingDigits(IF negative THEN Tail(text) ELSE text)
    IN  IF ds = <<>> THEN Undefined
        ELSE Some(IF negative THEN 0 - NumeralValue(ds) ELSE NumeralValue(ds))

\* parseFloat(recipient.amount) of a recipient that validateForm has let pass
AmountNumber(recipient) == Val(ParseFloat(recipient.amount))

\* useState<Recipient[]>([{address: "", amount: ""}])
InitialRecipients == <<[amount |-> <<>>, address |-> ""]>>

\* the recipient lists a batch import can produce
RecipientList(n) == [i \in 1..n |-> [amount |-> AmountOf(i), address |-> AddressOf(i)]]

\* lists that validateForm refuses: a malformed address, an amount of zero
InvalidKinds == {"address", "amount"}
InvalidList(kind) ==
    IF kind = "address" THEN <<[amount |-> <<"1">>, address |-> "bad"]>>
    ELSE <<[amount |-> <<"0">>, address |-> "oct_a"]>>

\* the ledger's balance of the wallet: enough for every list above, or too
\* little for a recipient that gets 2 OCT
HighBalance == MaxIntents + 1
LowBalance == HighBalance - MaxIntents
SrvNonces == {0}

RECURSIVE SumAmounts(_)
SumAmounts(rs) ==
    IF rs = <<>> THEN 0
    ELSE LET amountNum == ParseFloat(rs[1].amount)
         IN  (IF IsDef(amountNum) THEN Val(amountNum) ELSE 0) + SumAmounts(Tail(rs))

\* getTotalAmount()
GetTotalAmount(rs) == SumAmounts(rs)

\* addressRegex.test(address)
AddressRegexTest(address) == address \in ValidAddresses

\* validateForm() === null
ValidateForm(rs, balance) ==
    /\ \A i \in 1..Len(rs) :
          /\ AddressRegexTest(rs[i].address)
          /\ rs[i].amount # <<>>
          /\ IsDef(ParseFloat(rs[i].amount))
          /\ Val(ParseFloat(rs[i].amount)) > 0
    /\ ~(GetTotalAmount(rs) > balance)

\* ------------------------------------------------------ the scheduling pass
\* a start nonce that also skips every nonce an earlier pass has signed
StartNonceAfterSigned(nonce) ==
    LET signed == UNION { { Val(passes[p].calls[i].tx).nonce :
                              i \in { j \in 1..Len(passes[p].calls) :
                                        IsDef(passes[p].calls[j].tx) } } :
                          p \in 1..Len(passes) }
        floor == IF IsDef(nonce) THEN Val(nonce) ELSE -1
    IN  1 + (CHOOSE m \in signed \cup {floor} : \A x \in signed \cup {floor} : m >= x)

\* const startNonce = nonce !== undefined ? nonce + 1 : 0
StartNonce(nonce) == IF IsDef(nonce) THEN Val(nonce) + 1 ELSE 0

\* the nonce counted from the start of the batch instead of the whole list
TransactionNoncePerBatch(startNonce, overallIndex, batchIndex) ==
    startNonce + batchIndex

\* const transactionNonce = startNonce + overallIndex + batchIndex
TransactionNonce(startNonce, overallIndex, batchIndex) ==
    startNonce + overallIndex + batchIndex

\* for (let i = 0; i < recipients.length; i += BATCH_SIZE)
\*     batches.push(recipients.slice(i, i + BATCH_SIZE))
RECURSIVE BatchesFrom(_, _)
BatchesFrom(rs, i) ==
    IF i < Len(rs)
    THEN <<SubSeq(rs, i + 1, Min2(i + BATCH_SIZE, Len(rs)))>>
         \o BatchesFrom(rs, i + BATCH_SIZE)
    ELSE <<>>
Batches(rs) == BatchesFrom(rs, 0)

\* a batch that takes all the recipients that are left
BatchHiWholeList(ps) == Len(ps.recipients)

\* the current batch: recipients.slice(overallIndex, overallIndex + BATCH_SIZE)
BatchLo(ps) == ps.overallIndex + 1
BatchHi(ps) == Min2(ps.overallIndex + BATCH_SIZE, Len(ps.recipients))

\* batch.map(... sendTransaction(...)): every call of the batch runs to its
\* first await
DispatchBatch(ps, key, clock) ==
    [ps EXCEPT !.calls =
        [i \in 1..Len(ps.recipients) |->
            IF i \in BatchLo(ps)..BatchHi(ps)
            THEN SendTransactionSync(
                     ps.recipients[i].address, AmountNumber(ps.recipients[i]),
                     Some(TransactionNonce(ps.startNonce, ps.overallIndex,
                                           i - BatchLo(ps))),
                     ps.nonce, ps.balance, key, clock)
            ELSE ps.calls[i]]]

\* a batch that goes on as soon as one of its promises has settled
BatchRaced(ps) ==
    \E i \in BatchLo(ps)..BatchHi(ps) : ps.calls[i].st = "done"

\* await Promise.allSettled(transactionPromises) has resolved
BatchSettled(ps) ==
    \A i \in BatchLo(ps)..BatchHi(ps) : ps.calls[i].st = "done"

\* lines 176-186: the results of the settled batch, in the batch's order
CollectBatch(ps) ==
    [ps EXCEPT
       !.allExecutedResults = @ \o
           [k \in 1..(BatchHi(ps) - BatchLo(ps) + 1) |->
               [recipient |-> ps.recipients[BatchLo(ps) + k - 1],
                result |-> ps.calls[BatchLo(ps) + k - 1].result]],
       !.overallIndex = BatchHi(ps)]

\* a handleConfirm that gives up after a batch in which a submission failed
RECURSIVE AdvanceUntilFailure(_, _, _)
AdvanceUntilFailure(ps, key, clock) ==
    IF ps.pc = "sending" /\ BatchSettled(ps)
    THEN LET c == CollectBatch(ps)
         IN  IF /\ c.overallIndex < Len(c.recipients)
                /\ \A i \in BatchLo(ps)..BatchHi(ps) : ps.calls[i].result.value.success
             THEN AdvanceUntilFailure(DispatchBatch(c, key, clock), key, clock)
             ELSE [c EXCEPT !.pc = "done"]
    ELSE ps

\* a handleConfirm that is cancelled by closing the dialog: it goes on only
\* while the dialog is open
RECURSIVE AdvanceWhileOpen(_, _, _)
AdvanceWhileOpen(ps, key, clock) ==
    IF ps.pc = "sending" /\ BatchSettled(ps) /\ open
    THEN LET c == CollectBatch(ps)
         IN  IF c.overallIndex < Len(c.recipients)
             THEN AdvanceWhileOpen(DispatchBatch(c, key, clock), key, clock)
             ELSE [c EXCEPT !.pc = "done"]
    ELSE ps

\* handleConfirm from a point where it may resume: while the current batch is
\* settled, collect it and dispatch the next one, or finish
RECURSIVE Advance(_, _, _)
Advance(ps, key, clock) ==
    IF ps.pc = "sending" /\ BatchSettled(ps)
    THEN LET c == CollectBatch(ps)
         IN  IF c.overallIndex < Len(c.recipients)
             THEN Advance(DispatchBatch(c, key, clock), key, clock)
             ELSE [c EXCEPT !.pc = "done"]
    ELSE ps

\* intents handed to handleConfirm so far
RECURSIVE IntentsOf(_)
IntentsOf(pss) ==
    IF pss = <<>> THEN 0 ELSE Len(pss[1].recipients) + IntentsOf(Tail(pss))

\* the size of the run so far, and whether it has room for one more event
Work == IntentsOf(passes) + BATCH_SIZE * events
EventAllowed == Work + BATCH_SIZE <= MaxWork

\* setIsLoading as left by one synchronous run of the handlers: true when a
\* call went in flight, false after a completion or a caught key error
IsLoadingAfter(old, new, completed, cur) ==
    IF \E i \in 1..Len(new.calls) :
          old.calls[i].st = "idle" /\ new.calls[i].st = "inflight"
    THEN TRUE
    ELSE IF completed \/ \E i \in 1..Len(new.calls) :
                            /\ old.calls[i].st = "idle"
                            /\ new.calls[i].st = "done"
                            /\ new.calls[i].result.value.error = Some(KeyErrorText)
    THEN FALSE
    ELSE cur

\* setProgress(prev => ({...prev, sent: prev.sent + batch.length})), once for
\* every batch collected between old and new
ProgressAfter(prev, old, new) ==
    [prev EXCEPT !.sent = @ + (new.overallIndex - old.overallIndex)]

\* -------------------------------------------------------------------- Init
\* useTransactionHistory at its first render: the address request has started
\* and nothing has arrived; without hashes the details key is null
HistoryUnloaded ==
    /\ addressData = Undefined
    /\ addressError = Undefined
    /\ addressLoading = TRUE
    /\ transactionDetails = Undefined
    /\ detailsLoading = FALSE
    /\ detailAnswers = <<>>

\* no request has reached the relay, no amount has been parsed, and
\* sendTransaction has not been called outside the dialog
NothingApplied ==
    /\ relayed = <<>>
    /\ parsedAmounts = <<>>
    /\ directCalls = <<>>

Init ==
    /\ srvNonce \in SrvNonces
    /\ srvPool = <<>>
    /\ srvBalance = HighBalance
    /\ balanceData = Undefined
    /\ stagingData = Undefined
    /\ balanceRevalidate = FALSE
    /\ rendered = UseWalletBalance(Undefined, Undefined)
    /\ keyOk \in BOOLEAN
    /\ HistoryUnloaded
    /\ NothingApplied
    /\ isLoading = FALSE
    /\ open = FALSE
    /\ step = "form"
    /\ recipients = InitialRecipients
    /\ results = <<>>
    /\ progress = [sent |-> 0, total |-> 0]
    /\ resetPending = FALSE
    /\ passes = <<>>
    /\ events = 0
    /\ now = 0

\* ------------------------------------------------------- the SWR refreshes
\* the /balance fetcher resolves: first load, revalidation asked by mutate,
\* or the 30 s refreshInterval
BalanceRefresh ==
    /\ balanceData' = Some([balance |-> srvBalance, nonce |-> Some(srvNonce)])
    /\ balanceRevalidate' = FALSE
    /\ rendered' = UseWalletBalance(balanceData', stagingData)
    /\ UNCHANGED <<stagingData, ledgerVars, dialogVars, keyOk, historyVars, appliedVars, isLoading,
                   passes, events, now>>

\* the /staging fetcher resolves: first load or the 30 s refreshInterval
StagingRefresh ==
    /\ \/ ~IsDef(stagingData)
       \/ EventAllowed
    /\ stagingData' = Some([staged_transactions |-> srvPool])
    /\ events' = IF IsDef(stagingData) THEN events + 1 ELSE events
    /\ rendered' = UseWalletBalance(balanceData, stagingData')
    /\ UNCHANGED <<balanceData, balanceRevalidate, ledgerVars, dialogVars,
                   keyOk, historyVars, appliedVars, isLoading, passes, now>>

\* ---------------------------------------------------------------- ledger
\* the ledger finalises an epoch: the staged transactions are confirmed
FinaliseEpoch ==
    /\ srvPool # <<>>
    /\ EventAllowed
    /\ events' = events + 1
    /\ srvNonce' = Max2(srvNonce, MathMax(NoncesOf(srvPool)))
    /\ srvPool' = <<>>
    /\ UNCHANGED <<srvBalance, cacheVars, dialogVars, keyOk, historyVars, appliedVars, isLoading,
                   passes, now>>

\* the wallet's balance on the ledger drops (it is spent elsewhere)
SpendElsewhere ==
    /\ srvBalance = HighBalance
    /\ EventAllowed
    /\ events' = events + 1
    /\ srvBalance' = LowBalance
    /\ UNCHANGED <<srvNonce, srvPool, cacheVars, dialogVars, keyOk, historyVars, appliedVars, isLoading,
                   passes, now>>

\* ------------------------------------------------------------- the dialog
\* DialogTrigger: handleOpenChange(true)
OpenDialog ==
    /\ ~open
    /\ open' = TRUE
    /\ UNCHANGED <<step, recipients, results, progress, resetPending,
                   ledgerVars, cacheVars, keyOk, historyVars, appliedVars, isLoading, passes, events, now>>

\* the dialog's own close control: handleOpenChange(false)
CloseDialog ==
    /\ open
    /\ EventAllowed
    /\ events' = events + 1
    /\ open' = FALSE
    /\ resetPending' = TRUE
    /\ UNCHANGED <<step, recipients, results, progress,
                   ledgerVars, cacheVars, keyOk, historyVars, appliedVars, isLoading, passes, now>>

\* the Close button of the result step: setOpen(false)
HandleClose ==
    /\ open /\ step = "result"
    /\ open' = FALSE
    /\ UNCHANGED <<step, recipients, results, progress, resetPending,
                   ledgerVars, cacheVars, keyOk, historyVars, appliedVars, isLoading, passes, events, now>>

\* the timer of handleOpenChange fires: resetDialog()
ResetDialog ==
    /\ resetPending
    /\ resetPending' = FALSE
    /\ recipients' = InitialRecipients
    /\ step' = "form"
    /\ results' = <<>>
    /\ progress' = [sent |-> 0, total |-> 0]
    /\ UNCHANGED <<open, ledgerVars, cacheVars, keyOk, historyVars, appliedVars, isLoading, passes,
                   events, now>>

\* handleBatchImport with a text that parses to rs
HandleBatchImport(rs) ==
    /\ open /\ step = "form"
    /\ Len(rs) > 0
    /\ IntentsOf(passes) + Len(rs) <= MaxIntents
    /\ Work + Len(rs) <= MaxWork
    /\ recipients' = rs
    /\ UNCHANGED <<open, step, results, progress, resetPending,
                   ledgerVars, cacheVars, keyOk, historyVars, appliedVars, isLoading, passes, events, now>>

\* handleNext; the button is disabled while balanceLoading || isSending
HandleNext ==
    /\ open /\ step = "form"
    /\ ~rendered.isLoading /\ ~isLoading
    /\ ValidateForm(recipients, rendered.balance)
    /\ step' = "confirm"
    /\ UNCHANGED <<open, recipients, results, progress, resetPending,
                   ledgerVars, cacheVars, keyOk, historyVars, appliedVars, isLoading, passes, events, now>>

\* handleBack
HandleBack ==
    /\ open /\ step = "confirm"
    /\ step' = "form"
    /\ UNCHANGED <<open, recipients, results, progress, resetPending,
                   ledgerVars, cacheVars, keyOk, historyVars, appliedVars, isLoading, passes, events, now>>

\* handleConfirm up to its first suspension (or to its end, when no call of
\* any batch goes in flight)
HandleConfirm ==
    /\ open /\ step = "confirm"
    /\ IntentsOf(passes) + Len(recipients) <= MaxIntents
    /\ Work + Len(recipients) <= MaxWork
    /\ LET ps0 == [pc |-> "sending",
                   recipients |-> recipients,
                   nonce |-> rendered.nonce,
                   balance |-> rendered.balance,
                   startNonce |-> StartNonce(Some(rendered.nonce)),
                   overallIndex |-> 0,
                   allExecutedResults |-> <<>>,
                   calls |-> [i \in 1..Len(recipients) |-> IdleCall]]
           ps1 == Advance(DispatchBatch(ps0, keyOk, now), keyOk, now)
       IN  /\ passes' = Append(passes, ps1)
           /\ step' = IF ps1.pc = "done" THEN "result" ELSE "sending"
           /\ progress' = ProgressAfter([sent |-> 0, total |-> Len(recipients)],
                                        ps0, ps1)
           /\ results' = IF ps1.pc = "done" THEN ps1.allExecutedResults
                         ELSE results
           /\ isLoading' = IsLoadingAfter(ps0, ps1, FALSE, isLoading)
    /\ UNCHANGED <<open, recipients, resetPending, ledgerVars, cacheVars,
                   keyOk, historyVars, appliedVars, events, now>>

\* ------------------------------------------------------- network and relay
\* the hash the ledger gives the i-th transaction of pass p (the signed
\* timestamp carries a random jitter, so no two transactions hash alike)
HashOf(p, i) == 10 * p + i

\* the ledger's pool lists its transactions by hash
RECURSIVE PoolInsert(_, _)
PoolInsert(pool, e) ==
    IF pool = <<>> THEN <<e>>
    ELSE IF e.hash < pool[1].hash THEN <<e>> \o pool
    ELSE <<pool[1]>> \o PoolInsert(Tail(pool), e)

\* the relay forwards the request of call i of pass p and the ledger accepts
\* it: the transaction enters the pending pool, and the answer is still on
\* its way when something else happens
RelayAccept(p, i) ==
    /\ passes[p].calls[i].st = "inflight"
    /\ EventAllowed
    /\ events' = events + 1
    /\ passes' = [passes EXCEPT ![p].calls[i] =
                     [@ EXCEPT !.st = "responded",
                               !.up = Some("accepted"),
                               !.resp = Some(ProxyPOST(Upstream("accepted", HashOf(p, i))))]]
    /\ srvPool' = PoolInsert(srvPool,
                             PoolEntry(Val(passes[p].calls[i].tx), HashOf(p, i)))
    /\ UNCHANGED <<srvNonce, srvBalance, cacheVars, dialogVars, keyOk, historyVars, appliedVars,
                   isLoading, now>>

\* the part of a completing sendTransaction call that is common to all its
\* exits: the promise settles and handleConfirm resumes if its batch is done
SettleCall(p, i, kind, resp, settled) ==
    LET old == passes[p]
        new == Advance([old EXCEPT !.calls[i] =
                            [@ EXCEPT !.st = "done", !.up = kind,
                                      !.resp = resp, !.result = settled]],
                       keyOk, now')
    IN  /\ passes' = [passes EXCEPT ![p] = new]
        /\ progress' = ProgressAfter(progress, old, new)
        /\ step' = IF new.pc = "done" THEN "result" ELSE step
        /\ results' = IF new.pc = "done" THEN new.allExecutedResults ELSE results
        /\ isLoading' = IsLoadingAfter(old, new, TRUE, isLoading)
        /\ UNCHANGED <<open, recipients, resetPending>>

\* fetch('/api/proxy') rejects (the relay cannot be reached): catch block
FetchThrows(p, i) ==
    /\ passes[p].calls[i].st = "inflight"
    /\ EventAllowed
    /\ events' = events + 1
    /\ now' = now + 1
    /\ SettleCall(p, i, Undefined, Undefined, Caught(FetchFailedText))
    /\ UNCHANGED <<ledgerVars, cacheVars, keyOk, historyVars, appliedVars>>

\* a sendTransaction that asks for a refresh of the balance whatever the
\* answer was
ReceiveAnswerAlwaysRevalidating(p, i, kind, resp) ==
    /\ now' = now + 1
    /\ LET call == passes[p].calls[i]
           rcp == passes[p].recipients[i]
           res == ResultOfResponse(resp)
       IN  /\ SettleCall(p, i, Some(kind), Some(resp), Fulfilled(res))
           /\ IF res.success
              THEN stagingData' = MutateStaging(stagingData,
                          NewStagedTx(rcp.address, AmountNumber(rcp), call.currentNonce,
                                      Val(call.tx), Val(res.txHash), now'))
              ELSE UNCHANGED stagingData
           /\ balanceRevalidate' = TRUE
           /\ rendered' = UseWalletBalance(balanceData, stagingData')
    /\ UNCHANGED <<balanceData, keyOk, historyVars, appliedVars>>

\* a sendTransaction that leaves out mutate(balanceKey)
ReceiveAnswerWithoutRevalidation(p, i, kind, resp) ==
    /\ now' = now + 1
    /\ LET call == passes[p].calls[i]
           rcp == passes[p].recipients[i]
           res == ResultOfResponse(resp)
       IN  /\ SettleCall(p, i, Some(kind), Some(resp), Fulfilled(res))
           /\ IF res.success
              THEN stagingData' = MutateStaging(stagingData,
                          NewStagedTx(rcp.address, AmountNumber(rcp), call.currentNonce,
                                      Val(call.tx), Val(res.txHash), now'))
              ELSE UNCHANGED stagingData
           /\ UNCHANGED balanceRevalidate
           /\ rendered' = UseWalletBalance(balanceData, stagingData')
    /\ UNCHANGED <<balanceData, keyOk, historyVars, appliedVars>>

\* sendTransaction from the arrival of the answer resp (lines 301-373):
\* the result, and for a Success the optimistic update of the staging cache
\* and the revalidation of the balance cache
ReceiveAnswer(p, i, kind, resp) ==
    /\ now' = now + 1
    /\ LET call == passes[p].calls[i]
           rcp == passes[p].recipients[i]
           res == ResultOfResponse(resp)
       IN  /\ SettleCall(p, i, Some(kind), Some(resp), Fulfilled(res))
           /\ IF res.success
              THEN /\ stagingData' = MutateStaging(stagingData,
                          NewStagedTx(rcp.address, AmountNumber(rcp), call.currentNonce,
                                      Val(call.tx), Val(res.txHash), now'))
                   /\ balanceRevalidate' = TRUE
              ELSE UNCHANGED <<stagingData, balanceRevalidate>>
           /\ rendered' = UseWalletBalance(balanceData, stagingData')
    /\ UNCHANGED <<balanceData, keyOk, historyVars, appliedVars>>

\* the late answer of RelayAccept reaches sendTransaction
Deliver(p, i) ==
    /\ passes[p].calls[i].st = "responded"
    /\ ReceiveAnswer(p, i, Val(passes[p].calls[i].up), Val(passes[p].calls[i].resp))
    /\ UNCHANGED <<ledgerVars, events>>

\* the relay forwards the request of call i of pass p, the ledger accepts it
\* and the answer reaches sendTransaction with nothing happening in between
SubmitAccepted(p, i) ==
    /\ passes[p].calls[i].st = "inflight"
    /\ srvPool' = PoolInsert(srvPool,
                             PoolEntry(Val(passes[p].calls[i].tx), HashOf(p, i)))
    /\ ReceiveAnswer(p, i, "accepted", ProxyPOST(Upstream("accepted", HashOf(p, i))))
    /\ UNCHANGED <<srvNonce, srvBalance, events>>

\* the relay forwards the request and the ledger does not accept it (kind);
\* nothing changes on the ledger and the answer reaches sendTransaction
RelayRefuse(p, i, kind) ==
    /\ passes[p].calls[i].st = "inflight"
    /\ kind # "accepted"
    /\ EventAllowed
    /\ events' = events + 1
    /\ ReceiveAnswer(p, i, kind, ProxyPOST(Upstream(kind, HashOf(p, i))))
    /\ UNCHANGED ledgerVars

\* -------------------------------------------------------------------- Next
PassCalls == {pi \in (1..MaxIntents) \X (1..MaxIntents) :
                 /\ pi[1] <= Len(passes)
                 /\ pi[2] <= Len(passes[pi[1]].recipients)}

Next ==
    \/ BalanceRefresh
    \/ StagingRefresh
    \/ FinaliseEpoch
    \/ SpendElsewhere
    \/ OpenDialog
    \/ CloseDialog
    \/ HandleClose
    \/ ResetDialog
    \/ \E n \in 1..MaxIntents : HandleBatchImport(RecipientList(n))
    \/ \E kind \in InvalidKinds : HandleBatchImport(InvalidList(kind))
    \/ HandleNext
    \/ HandleBack
    \/ HandleConfirm
    \/ \E pi \in PassCalls : SubmitAccepted(pi[1], pi[2])
    \/ \E pi \in PassCalls : RelayAccept(pi[1], pi[2])
    \/ \E pi \in PassCalls, kind \in UpstreamKinds : RelayRefuse(pi[1], pi[2], kind)
    \/ \E pi \in PassCalls : FetchThrows(pi[1], pi[2])
    \/ \E pi \in PassCalls : Deliver(pi[1], pi[2])

Spec == Init /\ [][Next]_vars

\* ------------------------------------------- the Nonce Oracle on snapshots
\* useWalletBalance as a function of the contents of its two caches: the
\* caches start empty and take their contents from bounded sets.
Senders == {Wallet, OtherWallet}
OracleEntry(f, n) ==
    [from |-> f, nonce |-> n, amount |-> MICRO, to |-> "oct_a",
     timestamp |-> 0, hash |-> 0]

\* the confirmed state: not loaded (-2), loaded without a nonce (-1), or
\* loaded with the nonce n
ConfirmedStates == (-2)..MaxNonce
BalanceSnapshot(n) ==
    IF n = -2 THEN Undefined
    ELSE Some([nonce |-> IF n = -1 THEN Undefined ELSE Some(n),
               balance |-> HighBalance])

InitOracle ==
    /\ srvNonce = 0
    /\ srvPool = <<>>
    /\ srvBalance = HighBalance
    /\ balanceData = Undefined
    /\ stagingData = Undefined
    /\ balanceRevalidate = FALSE
    /\ rendered = UseWalletBalance(Undefined, Undefined)
    /\ keyOk = TRUE
    /\ HistoryUnloaded
    /\ NothingApplied
    /\ isLoading = FALSE
    /\ open = FALSE
    /\ step = "form"
    /\ recipients = InitialRecipients
    /\ results = <<>>
    /\ progress = [sent |-> 0, total |-> 0]
    /\ resetPending = FALSE
    /\ passes = <<>>
    /\ events = 0
    /\ now = 0

oracleFrame == <<ledgerVars, balanceRevalidate, keyOk, historyVars, appliedVars, isLoading, dialogVars,
                 passes, events, now>>

\* the confirmed-state cache takes another snapshot and the hook renders
OracleBalance(bd) ==
    /\ balanceData' = bd
    /\ rendered' = UseWalletBalance(balanceData', stagingData)
    /\ UNCHANGED <<stagingData, oracleFrame>>

\* an entry is prepended to the pending-pool cache and the hook renders
OracleStage(e) ==
    /\ Len(StagedOf(stagingData)) < MaxPool
    /\ stagingData' = MutateStaging(stagingData, e)
    /\ rendered' = UseWalletBalance(balanceData, stagingData')
    /\ UNCHANGED <<balanceData, oracleFrame>>

\* the pending-pool cache loses its newest entry and the hook renders
OracleUnstage ==
    /\ StagedOf(stagingData) # <<>>
    /\ stagingData' = Some([staged_transactions |-> Tail(StagedOf(stagingData))])
    /\ rendered' = UseWalletBalance(balanceData, stagingData')
    /\ UNCHANGED <<balanceData, oracleFrame>>

NextOracle ==
    \/ \E n \in ConfirmedStates : OracleBalance(BalanceSnapshot(n))
    \/ \E f \in Senders, n \in 0..MaxNonce : OracleStage(OracleEntry(f, n))
    \/ OracleUnstage

SpecOracle == InitOracle /\ [][NextOracle]_vars

\* ================================================================== claims
\* helpers of the properties below
Calls(ps) == 1..Len(ps.calls)
Succeeded(ps, i) == ps.calls[i].st = "done" /\ ps.calls[i].result.value.success
Failed(ps, i) == ps.calls[i].st = "done" /\ ~ps.calls[i].result.value.success
Signed(ps, i) == IsDef(ps.calls[i].tx)
SetMax(S) == CHOOSE m \in S : \A x \in S : m >= x
\* the chunk (0, 1, ...) the i-th recipient belongs to
ChunkOf(i) == (i - 1) \div BATCH_SIZE

\* ---------------------------------------------------------------------- C1
\* C1: in a pass started when the hook reported the nonce b, the i-th
\* recipient (counted from 0) is signed and submitted with the nonce b+1+i,
\* in whatever chunk it goes out and whatever happened to the caches since
\* the pass started; a pass that signs all its N intents uses exactly
\* b+1 .. b+N, and the ledger's pool holds each accepted one under that nonce.
C1_PreassignedNonces ==
    \A p \in 1..Len(passes) :
        LET ps == passes[p]
            b == ps.nonce
        IN  /\ \A i \in Calls(ps) :
                  /\ Signed(ps, i) => Val(ps.calls[i].tx).nonce = b + 1 + (i - 1)
                  /\ \A k \in 1..Len(srvPool) :
                        srvPool[k].hash = HashOf(p, i) => srvPool[k].nonce = b + i
            /\ (\A i \in Calls(ps) : Signed(ps, i)) =>
                  { Val(ps.calls[i].tx).nonce : i \in Calls(ps) }
                     = (b + 1)..(b + Len(ps.calls))

\* a finished pass of more than one chunk, all of it signed, during which the
\* nonce reported by the hook moved away from the one the pass started with
C1_Witness ==
    \E p \in 1..Len(passes) :
        /\ passes[p].pc = "done"
        /\ Len(passes[p].calls) > BATCH_SIZE
        /\ \A i \in Calls(passes[p]) : Signed(passes[p], i)
        /\ rendered.nonce # passes[p].nonce

\* ---------------------------------------------------------------------- C2
\* C2: the step in which a submission signed with the nonce n succeeds puts
\* one entry at the head of the pending-pool cache, with the wallet as from,
\* the recipient as to, the submitted amount, the returned hash and the nonce
\* n, and keeps the entries that were there, in their order, behind it.
C2_InjectedEntryCarriesSignedNonce ==
    [][\A pi \in PassCalls :
          LET p == pi[1]
              i == pi[2]
              old == passes[p].calls[i]
              new == passes'[p].calls[i]
          IN  (old.st # "done" /\ new.st = "done" /\ new.result.value.success) =>
                 /\ StagedOf(stagingData') # <<>>
                 /\ Tail(StagedOf(stagingData')) = StagedOf(stagingData)
                 /\ LET e == Head(StagedOf(stagingData'))
                    IN  /\ e.from = Wallet
                        /\ e.to = passes[p].recipients[i].address
                        /\ e.amount = Val(new.tx).amount
                        /\ e.hash = Val(new.result.value.txHash)
                        /\ e.nonce = Val(new.tx).nonce]_vars

\* ---------------------------------------------------------------------- C3
\* the pending-pool cache still holds the optimistic entry of call i of ps
\* (an entry fetched from the ledger carries the timestamp that was signed)
OptimisticEntryKept(ps, i) ==
    \E k \in 1..Len(StagedOf(stagingData)) :
        /\ StagedOf(stagingData)[k].hash = Val(ps.calls[i].result.value.txHash)
        /\ StagedOf(stagingData)[k].timestamp # Val(ps.calls[i].tx).timestamp

\* no server refresh of either cache since the submissions of ps succeeded
NotRefreshedSince(ps) ==
    /\ balanceRevalidate
    /\ \A i \in Calls(ps) : Succeeded(ps, i) => OptimisticEntryKept(ps, i)

HighestSubmitted(ps) ==
    SetMax({ Val(ps.calls[i].tx).nonce : i \in { j \in Calls(ps) : Succeeded(ps, j) } })

\* C3: a pass started after the previous pass has finished with at least one
\* success, before any server refresh of either cache, starts exactly at the
\* highest nonce the previous pass submitted successfully plus one: no nonce
\* is used twice and none is skipped.
C3_SecondPassStartsAfterHighest ==
    [][(/\ Len(passes) >= 1
        /\ Len(passes') = Len(passes) + 1
        /\ \A p \in 1..Len(passes) : passes[p].pc = "done"
        /\ \E i \in Calls(passes[Len(passes)]) : Succeeded(passes[Len(passes)], i)
        /\ NotRefreshedSince(passes[Len(passes)]))
       => passes'[Len(passes')].startNonce
             = HighestSubmitted(passes[Len(passes)]) + 1]_vars

\* ---------------------------------------------------------------------- C4
\* the nonces of the wallet's own entries in the pending-pool cache
OwnPendingNonces ==
    { StagedOf(stagingData)[k].nonce :
        k \in { j \in 1..Len(StagedOf(stagingData)) :
                  StagedOf(stagingData)[j].from = Wallet } }

\* C4: with the confirmed nonce c loaded, the nonce the hook reports is c when
\* the pending-pool cache holds no entry of the wallet, and otherwise the
\* larger of c and the highest nonce p among the wallet's own entries; entries
\* of other senders do not count, and the reported nonce is never below c.
C4_EffectiveNonce ==
    (IsDef(balanceData) /\ IsDef(Val(balanceData).nonce)) =>
        LET c == Val(Val(balanceData).nonce)
        IN  /\ rendered.nonce >= c
            /\ OwnPendingNonces = {} => rendered.nonce = c
            /\ OwnPendingNonces # {} =>
                  rendered.nonce = Max2(c, SetMax(OwnPendingNonces))

\* the wallet's highest pending nonce lies above the confirmed nonce, and
\* another sender's entry lies above both
C4_Witness ==
    /\ IsDef(balanceData) /\ IsDef(Val(balanceData).nonce)
    /\ OwnPendingNonces # {}
    /\ SetMax(OwnPendingNonces) > Val(Val(balanceData).nonce)
    /\ \E k \in 1..Len(StagedOf(stagingData)) :
          /\ StagedOf(stagingData)[k].from = OtherWallet
          /\ StagedOf(stagingData)[k].nonce > SetMax(OwnPendingNonces)
    /\ rendered.nonce = SetMax(OwnPendingNonces)

\* ---------------------------------------------------------------------- C5
\* C5: when the confirmed nonce is missing (the confirmed state is not loaded
\* yet, or is loaded without a nonce) it counts as 0: the hook reports the
\* highest nonce among the wallet's own pending entries, or 0 without any.
C5_MissingConfirmedNonceIsZero ==
    (~IsDef(balanceData) \/ ~IsDef(Val(balanceData).nonce)) =>
        rendered.nonce = Max2(0, IF OwnPendingNonces = {} THEN 0
                                 ELSE SetMax(OwnPendingNonces))

\* ---------------------------------------------------------------------- C6
\* C6: the nonce the hook reports never decreases, whatever happens: an
\* optimistic injection, a refresh of either cache, a confirmation of pending
\* transactions by the ledger.
C6_EffectiveNonceNeverDecreases ==
    [][rendered'.nonce >= rendered.nonce]_vars

\* ---------------------------------------------------------------------- C7
\* C7: the chunks of a pass go out one after the other: a submission of a
\* later chunk is dispatched only when every submission of the earlier chunks
\* has settled; the submissions of one chunk are dispatched together, in one
\* run, none waiting for another.
C7_ChunksSequential ==
    \A p \in 1..Len(passes) :
        LET ps == passes[p]
        IN  \A i, j \in Calls(ps) :
               /\ (ChunkOf(i) < ChunkOf(j) /\ ps.calls[j].st # "idle")
                     => ps.calls[i].st = "done"
               /\ ChunkOf(i) = ChunkOf(j) =>
                     /\ (ps.calls[i].st = "idle") <=> (ps.calls[j].st = "idle")
                     /\ (Signed(ps, i) /\ Signed(ps, j)) =>
                           Val(ps.calls[i].tx).timestamp = Val(ps.calls[j].tx).timestamp

\* the second chunk of a pass is in flight, dispatched when the last of the
\* submissions of the first chunk, which settled one by one, had succeeded
C7_Witness ==
    \E p \in 1..Len(passes) :
        /\ Len(passes[p].calls) > BATCH_SIZE
        /\ passes[p].calls[BATCH_SIZE + 1].st = "inflight"
        /\ \A i \in 1..BATCH_SIZE : Succeeded(passes[p], i)
        /\ Val(passes[p].calls[BATCH_SIZE + 1].tx).timestamp = BATCH_SIZE

\* ---------------------------------------------------------------------- C8
\* the outcome is a Success with a hash or a Failure with a reason
WellFormedOutcome(r) ==
    \/ r.success /\ IsDef(r.txHash) /\ ~IsDef(r.error)
    \/ ~r.success /\ IsDef(r.error) /\ ~IsDef(r.txHash)

\* C8: a finished pass over N recipients has exactly N outcomes, the k-th one
\* for the k-th recipient, each a Success with a hash or a Failure with a
\* reason; no call of sendTransaction ever rejects: every error becomes a
\* Failure outcome.
C8_OneOutcomePerRecipient ==
    \A p \in 1..Len(passes) :
        LET ps == passes[p]
        IN  /\ \A i \in Calls(ps) :
                  /\ ps.calls[i].result.status \in {"pending", "fulfilled"}
                  /\ ps.calls[i].st = "done" =>
                        /\ ps.calls[i].result.status = "fulfilled"
                        /\ WellFormedOutcome(ps.calls[i].result.value)
            /\ ps.pc = "done" =>
                  /\ Len(ps.allExecutedResults) = Len(ps.recipients)
                  /\ \A k \in 1..Len(ps.recipients) :
                        /\ ps.allExecutedResults[k].recipient = ps.recipients[k]
                        /\ ps.allExecutedResults[k].result = ps.calls[k].result
                        /\ ps.allExecutedResults[k].result.status = "fulfilled"
                        /\ WellFormedOutcome(ps.allExecutedResults[k].result.value)

\* a finished pass of two chunks with a Success and a Failure that came from a
\* caught exception, shown by the dialog
C8_Witness ==
    \E p \in 1..Len(passes) :
        /\ passes[p].pc = "done"
        /\ Len(passes[p].calls) > BATCH_SIZE
        /\ \E i, j \in Calls(passes[p]) :
              /\ Succeeded(passes[p], i)
              /\ passes[p].calls[j].result = Caught(FetchFailedText)
        /\ results = passes[p].allExecutedResults

\* ---------------------------------------------------------------------- C9
\* sendTransaction for recipient j gets past its own early returns
Submittable(ps, j) == ~(ps.balance < AmountNumber(ps.recipients[j])) /\ keyOk

\* C9: in a finished pass, the failure of one intent changes nothing for the
\* others: each of them that passes its own local checks was signed for its
\* own recipient and amount with the nonce assigned to its position, and
\* succeeded exactly when the ledger accepted it.
C9_FailureIsolated ==
    \A p \in 1..Len(passes) :
        LET ps == passes[p]
        IN  ps.pc = "done" =>
               \A i, j \in Calls(ps) :
                  (i # j /\ Failed(ps, i)) =>
                     /\ ps.calls[j].st = "done"
                     /\ Submittable(ps, j) <=> Signed(ps, j)
                     /\ Signed(ps, j) =>
                           /\ Val(ps.calls[j].tx).nonce = ps.startNonce + (j - 1)
                           /\ Val(ps.calls[j].tx).to_ = ps.recipients[j].address
                           /\ Val(ps.calls[j].tx).amount = AmountNumber(ps.recipients[j]) * MICRO
                     /\ Succeeded(ps, j) <=> ps.calls[j].up = Some("accepted")

\* a finished pass in which the second intent failed at the ledger, and its
\* neighbours in the chunk and the intent of the next chunk succeeded
C9_Witness ==
    \E p \in 1..Len(passes) :
        /\ passes[p].pc = "done"
        /\ Len(passes[p].calls) > BATCH_SIZE
        /\ Failed(passes[p], 2) /\ Signed(passes[p], 2)
        /\ \A j \in Calls(passes[p]) \ {2} : Succeeded(passes[p], j)

\* --------------------------------------------------------------------- C10
\* the outcomes of a pass when the ledger did not answer the submission of
\* intent i within the relay's bound, the failure carrying the reason msg
TimeoutOutcome(msg) ==
    \A p \in 1..Len(passes) :
        LET ps == passes[p]
        IN  \A i \in Calls(ps) :
               (ps.calls[i].st = "done" /\ ps.calls[i].up = Some("timeout")) =>
                  /\ ps.calls[i].result = Fulfilled(Failure(msg))
                  /\ ps.pc = "done" =>
                        /\ ps.allExecutedResults[i].recipient = ps.recipients[i]
                        /\ ps.allExecutedResults[i].result = Fulfilled(Failure(msg))
                  /\ \A j \in Calls(ps) \ {i} :
                        (ps.calls[j].st = "done" /\ ps.calls[j].up = Some("accepted")) =>
                           /\ Succeeded(ps, j)
                           /\ ps.pc = "done" =>
                                 ps.allExecutedResults[j].result.value.success

\* C10 as stated: a submission that runs into the 10 s bound gives its intent
\* alone a Failure outcome with the reason "timeout", at its own position;
\* the siblings that were accepted keep their Success outcomes.
C10_TimeoutReasonTimeout == TimeoutOutcome("timeout")

\* C10 amended: a submission that runs into the 10 s bound gives its intent
\* alone a Failure outcome, at its own position, whose reason is the relay's
\* generic text "An unexpected error occurred in the proxy."; the siblings
\* that were accepted keep their Success outcomes.
C10_TimeoutReasonProxyError == TimeoutOutcome(ProxyErrorText)

\* a finished pass in which one submission of the first chunk timed out and
\* another one of the same chunk succeeded
C10_Witness ==
    \E p \in 1..Len(passes) :
        /\ passes[p].pc = "done"
        /\ \E i, j \in 1..BATCH_SIZE :
              /\ i # j /\ j <= Len(passes[p].calls) /\ i <= Len(passes[p].calls)
              /\ passes[p].calls[i].up = Some("timeout")
              /\ Succeeded(passes[p], j)

\* --------------------------------------------------------------------- C11
\* A state of Spec in which a pass over two recipients is running: the
\* ledger has refused its first submission, the second one is in flight.
\* The events that led here are not counted again.
RunningPass ==
    LET ps0 == [pc |-> "sending",
                recipients |-> RecipientList(2),
                nonce |-> 0,
                balance |-> HighBalance,
                startNonce |-> 1,
                overallIndex |-> 0,
                allExecutedResults |-> <<>>,
                calls |-> [i \in 1..2 |-> IdleCall]]
        answer == ProxyPOST(Upstream("rejected", HashOf(1, 1)))
    IN  [DispatchBatch(ps0, TRUE, 0) EXCEPT
           !.calls[1] = [@ EXCEPT !.st = "done", !.up = Some("rejected"),
                                  !.resp = Some(answer),
                                  !.result = Fulfilled(ResultOfResponse(answer))]]

InitOverlap ==
    /\ srvNonce = 0
    /\ srvPool = <<>>
    /\ srvBalance = HighBalance
    /\ balanceData = Some([nonce |-> Some(0), balance |-> HighBalance])
    /\ stagingData = Some([staged_transactions |-> <<>>])
    /\ balanceRevalidate = FALSE
    /\ rendered = UseWalletBalance(balanceData, stagingData)
    /\ keyOk = TRUE
    /\ HistoryUnloaded
    /\ NothingApplied
    /\ isLoading = FALSE
    /\ open = TRUE
    /\ step = "sending"
    /\ recipients = RecipientList(2)
    /\ results = <<>>
    /\ progress = [sent |-> 0, total |-> 2]
    /\ resetPending = FALSE
    /\ passes = <<RunningPass>>
    /\ events = 0
    /\ now = 1

SpecOverlap == InitOverlap /\ [][Next]_vars

\* C11: passes are not serialized.  Two passes that read the same base nonce
\* start at the same nonce, whether or not the earlier one is still running,
\* and sign the intents of equal position with equal nonces: their nonce
\* ranges overlap.
C11_PassesOverlap ==
    \A p, q \in 1..Len(passes) :
        (p < q /\ passes[p].nonce = passes[q].nonce) =>
            /\ passes[q].startNonce = passes[p].startNonce
            /\ \A i \in Calls(passes[p]) \cap Calls(passes[q]) :
                  (Signed(passes[p], i) /\ Signed(passes[q], i)) =>
                      Val(passes[q].calls[i].tx).nonce = Val(passes[p].calls[i].tx).nonce

\* a second pass was started, after the dialog was closed and reset, while
\* the first one still has a submission in flight; both read the same base
\* nonce, and submissions of both with the same nonce are on their way
C11_Witness ==
    /\ Len(passes) >= 2
    /\ passes[1].pc = "sending"
    /\ passes[2].nonce = passes[1].nonce
    /\ \E i \in Calls(passes[1]), j \in Calls(passes[2]) :
          /\ passes[1].calls[i].st = "inflight"
          /\ passes[2].calls[j].st = "inflight"
          /\ Val(passes[1].calls[i].tx).nonce = Val(passes[2].calls[j].tx).nonce

\* --------------------------------------------------------------------- C12
\* the ledger accepts the request of call i of pass p and answers in the
\* legacy format, a string "ok <hash>"
SubmitLegacy(p, i, kind) ==
    /\ passes[p].calls[i].st = "inflight"
    /\ kind \in LegacyAccepts
    /\ srvPool' = PoolInsert(srvPool,
                             PoolEntry(Val(passes[p].calls[i].tx), HashOf(p, i)))
    /\ ReceiveAnswer(p, i, kind, ProxyPOST(Upstream(kind, HashOf(p, i))))
    /\ UNCHANGED <<srvNonce, srvBalance, events>>

\* one pass of a short list, with every shape of answer
NextShapes ==
    \/ BalanceRefresh
    \/ StagingRefresh
    \/ OpenDialog
    \/ \E n \in 1..MaxShapeIntents : HandleBatchImport(RecipientList(n))
    \/ HandleNext
    \/ HandleConfirm
    \/ \E pi \in PassCalls : SubmitAccepted(pi[1], pi[2])
    \/ \E pi \in PassCalls, kind \in LegacyAccepts : SubmitLegacy(pi[1], pi[2], kind)
    \/ \E pi \in PassCalls, kind \in (UpstreamKinds \cup OtherRefusals) :
          RelayRefuse(pi[1], pi[2], kind)

SpecShapes == Init /\ [][NextShapes]_vars

\* the relay's answer resp is an OK answer of one of the two accepted shapes,
\* carrying the hash h
AcceptedShape(resp, h) ==
    /\ resp.ok
    /\ \/ /\ ~IsDef(resp.body.text)
          /\ resp.body.status = "accepted"
          /\ resp.body.tx_hash = Some(h)
       \/ /\ IsDef(resp.body.text)
          /\ Val(resp.body.text).word \in {"ok", "OK"}
          /\ Val(resp.body.text).last = Some(h)

\* C12: the step in which the relay's answer reaches a submission makes its
\* outcome a Success with the hash h exactly when the answer is OK and its
\* body is an object with status "accepted" and the hash h, or a string that
\* begins with "ok" and ends in the token h; every other answer makes it a
\* Failure, and that step leaves the pending-pool cache as it was.
C12_SuccessExactlyOnAcceptedShapes ==
    [][\A pi \in PassCalls :
          LET p == pi[1]
              i == pi[2]
              old == passes[p].calls[i]
              new == passes'[p].calls[i]
          IN  (old.st # "done" /\ new.st = "done" /\ IsDef(new.resp)) =>
                 /\ new.result.status = "fulfilled"
                 /\ new.result.value.success =>
                       /\ IsDef(new.result.value.txHash)
                       /\ AcceptedShape(Val(new.resp), Val(new.result.value.txHash))
                 /\ (\E h \in {HashOf(p, i)} : AcceptedShape(Val(new.resp), h)) =>
                       new.result.value = Success(HashOf(p, i))
                 /\ ~new.result.value.success =>
                       /\ IsDef(new.result.value.error)
                       /\ stagingData' = stagingData]_vars

\* a finished pass of two submissions: one answered in the legacy format and
\* successful with the trailing token as its hash, the other answered
\* "accepted" without a hash and failed; the cache holds the entry of the
\* first one only
C12_Witness ==
    \E p \in 1..Len(passes) :
        /\ passes[p].pc = "done"
        /\ \E i, j \in Calls(passes[p]) :
              /\ passes[p].calls[i].up \in {Some(kind) : kind \in LegacyAccepts}
              /\ passes[p].calls[i].result.value = Success(HashOf(p, i))
              /\ passes[p].calls[j].up = Some("accepted_nohash")
              /\ Failed(passes[p], j)
              /\ Len(StagedOf(stagingData)) = 1
              /\ StagedOf(stagingData)[1].hash = HashOf(p, i)

\* ------------------------------------------------- the merged history
\* .slice(0, 50)
HistoryLimit == 50

\* the decimal numeral of a natural number, as a text
RECURSIVE DigitsOf(_)
DigitsOf(n) ==
    IF n < 10 THEN <<DigitChars[n + 1]>>
    ELSE DigitsOf(n \div 10) \o <<DigitChars[(n % 10) + 1]>>

\* amountStr.includes('.')
Includes(text, c) == \E k \in DOMAIN text : text[k] = c

\* parseInt(amountStr) / 1_000_000 as a number of micro-units: the leading
\* numeral of the text
ParseIntMicros(text) == NumeralValue(LeadingDigits(text))

\* digits after the point, as micro-units: the first six count
RECURSIVE FractionMicros(_, _)
FractionMicros(ds, weight) ==
    IF ds = <<>> \/ weight = 0 THEN 0
    ELSE DigitValue(ds[1]) * weight + FractionMicros(Tail(ds), weight \div 10)

\* parseFloat(amountStr) as a number of micro-units, for a text with a point
ParseFloatMicros(text) ==
    LET whole == LeadingDigits(text)
        rest == SubSeq(text, Len(whole) + 1, Len(text))
        fraction == IF rest # <<>> /\ rest[1] = "." THEN LeadingDigits(Tail(rest))
                    ELSE <<>>
    IN  NumeralValue(whole) * MICRO + FractionMicros(fraction, MICRO \div 10)

\* parseAmount of the text amountStr, as a number of micro-units:
\* amountStr.includes('.') ? parseFloat(amountStr)
\*                         : parseInt(amountStr) / 1_000_000
ParseAmountStr(amountStr) ==
    IF Includes(amountStr, ".") THEN ParseFloatMicros(amountStr)
    ELSE ParseIntMicros(amountStr)

\* parseAmount of a string of digits, the amount in micro-units: the number
\* parseInt(amountStr) / 1_000_000, written as its whole units and the
\* micro-units that remain; a missing amount counts as '0'
ParseAmount(amountRaw) ==
    LET amountStr == IF IsDef(amountRaw) THEN Val(amountRaw) ELSE 0
    IN  [units |-> amountStr \div MICRO, micros |-> amountStr % MICRO]

\* new Date(timestamp * 1000).getTime()
TimeOf(timestamp) == timestamp * 1000

\* addressData.recent_transactions.find(ref => ref.hash === hash)
FindRef(refs, hash) ==
    IF \E k \in DOMAIN refs : refs[k].hash = hash
    THEN Some(refs[CHOOSE k \in DOMAIN refs :
                     /\ refs[k].hash = hash
                     /\ \A j \in 1..(k - 1) : refs[j].hash # hash])
    ELSE Undefined

\* the entry of a confirmed transaction that forgets its reference
ConfirmedEntryWithoutRef(result, refs) ==
    LET parsedTx == Val(result.data.parsed_tx)
        isIncoming == parsedTx.to = Wallet
    IN  [time |-> TimeOf(parsedTx.timestamp), hash |-> result.hash,
         amount |-> ParseAmount(parsedTx.amount_raw),
         to |-> IF isIncoming THEN parsedTx.from ELSE parsedTx.to,
         type |-> IF isIncoming THEN "in" ELSE "out",
         ok |-> TRUE, nonce |-> parsedTx.nonce, epoch |-> Undefined]

\* the entry pushed for a confirmed transaction (lines 162-176)
ConfirmedEntry(result, refs) ==
    LET parsedTx == Val(result.data.parsed_tx)
        txRef == FindRef(refs, result.hash)
        isIncoming == parsedTx.to = Wallet
    IN  [time |-> TimeOf(parsedTx.timestamp), hash |-> result.hash,
         amount |-> ParseAmount(parsedTx.amount_raw),
         to |-> IF isIncoming THEN parsedTx.from ELSE parsedTx.to,
         type |-> IF isIncoming THEN "in" ELSE "out",
         ok |-> TRUE, nonce |-> parsedTx.nonce,
         epoch |-> IF IsDef(txRef) THEN Some(Val(txRef).epoch) ELSE Undefined]

\* transactionDetails.forEach(...) from the k-th result on, processedHashes
\* being the hashes pushed so far (lines 156-177)
RECURSIVE ConfirmedFrom(_, _, _, _)
ConfirmedFrom(details, refs, k, processedHashes) ==
    IF k > Len(details) THEN <<>>
    ELSE IF \/ ~IsDef(details[k].data.parsed_tx)
            \/ details[k].hash \in processedHashes
         THEN ConfirmedFrom(details, refs, k + 1, processedHashes)
         ELSE <<ConfirmedEntry(details[k], refs)>>
              \o ConfirmedFrom(details, refs, k + 1,
                               processedHashes \cup {details[k].hash})

\* block a. of processedTransactions (lines 155-178)
ConfirmedTransactions(details, ad) ==
    IF /\ IsDef(details) /\ Len(Val(details)) > 0
       /\ IsDef(ad) /\ Len(Val(ad).recent_transactions) > 0
    THEN ConfirmedFrom(Val(details), Val(ad).recent_transactions, 1, {})
    ELSE <<>>

\* a filter that also keeps what other wallets sent to this wallet
StagedFromOrToWallet(staged, processedHashes) ==
    SelectSeq(staged, LAMBDA tx : /\ tx.from = Wallet \/ tx.to = Wallet
                                  /\ tx.hash \notin processedHashes)

\* stagingData.staged_transactions.filter(tx => tx.from === wallet.address &&
\* tx.hash && !processedHashes.has(tx.hash)): the whole filter runs before
\* the forEach below adds any hash (lines 182-184)
OurStagedHistoryTxs(staged, processedHashes) ==
    SelectSeq(staged, LAMBDA tx : /\ tx.from = Wallet
                                  /\ tx.hash \notin processedHashes)

\* the entry pushed for a pending transaction (lines 187-198)
StagedEntry(stagedTx) ==
    LET isIncoming == stagedTx.to = Wallet
    IN  [time |-> TimeOf(stagedTx.timestamp), hash |-> stagedTx.hash,
         amount |-> ParseAmount(Some(stagedTx.amount)),
         to |-> IF isIncoming THEN stagedTx.from ELSE stagedTx.to,
         type |-> IF isIncoming THEN "in" ELSE "out",
         ok |-> TRUE, nonce |-> stagedTx.nonce, epoch |-> Undefined]

\* finalTransactions before the sort (lines 144-200)
FinalTransactions(details, ad, sd) ==
    LET confirmed == ConfirmedTransactions(details, ad)
        processedHashes == {confirmed[k].hash : k \in DOMAIN confirmed}
        ourStagedTxs == OurStagedHistoryTxs(StagedOf(sd), processedHashes)
    IN  confirmed \o [k \in DOMAIN ourStagedTxs |-> StagedEntry(ourStagedTxs[k])]

\* a sort from the oldest to the newest
SortOldestFirst(txs) ==
    LET Before(i, j) == \/ txs[i].time < txs[j].time
                        \/ txs[i].time = txs[j].time /\ i < j
        Rank(j) == Cardinality({i \in DOMAIN txs : Before(i, j)})
    IN  [k \in DOMAIN txs |-> txs[CHOOSE j \in DOMAIN txs : Rank(j) = k - 1]]

\* .sort((a, b) => b.time.getTime() - a.time.getTime()): a stable sort, so
\* an entry stands after the newer ones and after the equally old ones that
\* were pushed before it
SortNewestFirst(txs) ==
    LET Before(i, j) == \/ txs[i].time > txs[j].time
                        \/ txs[i].time = txs[j].time /\ i < j
        Rank(j) == Cardinality({i \in DOMAIN txs : Before(i, j)})
    IN  [k \in DOMAIN txs |-> txs[CHOOSE j \in DOMAIN txs : Rank(j) = k - 1]]

\* the value of the useMemo (lines 141-208)
ProcessedTransactions(details, ad, sd) ==
    LET sorted == SortNewestFirst(FinalTransactions(details, ad, sd))
    IN  SubSeq(sorted, 1, Min2(HistoryLimit, Len(sorted)))

\* the messages of the errors the fetcher throws
AddressNotFoundText == "Address not found"
NotFoundPageText == "404 page not found"
RpcErrorText == "RPC Error"
FetchDataErrorText == "An error occurred while fetching the data."

\* message.includes('404'), for the messages above
Includes404(message) == message = NotFoundPageText

\* the ledger's answers to a failing /address request: status 404 with the
\* body {"error": "Address not found"}, with the text "404 page not found",
\* with an empty body or with a JSON body without "error"; or no answer
\* within 10 s
AddressFailKinds ==
    {"notfound_json", "notfound_text", "notfound_empty", "notfound_other",
     "timeout"}
UpstreamAddressFailure(kind) ==
    IF kind = "timeout" THEN Upstream("timeout", 0)
    ELSE [threw |-> FALSE, ok |-> FALSE, status |-> 404,
          body |-> [status |-> "", tx_hash |-> Undefined,
                    error |-> CASE kind = "notfound_json" -> Some(AddressNotFoundText)
                                [] kind = "notfound_text" -> Some(NotFoundPageText)
                                [] kind = "notfound_empty" -> Some(RpcErrorText)
                                [] OTHER -> Undefined,
                    text |-> Undefined]]

\* the Error the fetcher throws for an answer that is not OK
FetcherError(resp) ==
    IF IsDef(resp.body.error) THEN Val(resp.body.error) ELSE FetchDataErrorText

\* what useTransactionHistory returns (lines 212-228); the details fetcher
\* catches every exception, so detailsError stays undefined
UseTransactionHistory ==
    LET processedTransactions ==
            ProcessedTransactions(transactionDetails, addressData, stagingData)
        detailsError == Undefined
        error == IF IsDef(addressError) THEN addressError ELSE detailsError
    IN  IF IsDef(addressError) /\ Includes404(Val(addressError))
        THEN [history |-> processedTransactions, isLoading |-> FALSE,
              error |-> Undefined]
        ELSE [history |-> processedTransactions,
              isLoading |-> addressLoading \/ detailsLoading, error |-> error]

\* ----------------------------- the merged history on snapshots of its caches
\* the references the address request answers with: the hashes 1..n, the
\* newest first, each with its epoch
RefList(n) == [k \in 1..n |-> [hash |-> n + 1 - k, epoch |-> 100 + (n + 1 - k)]]

\* the confirmed transaction with the hash h: the odd ones were sent by this
\* wallet, the even ones were sent to it
LedgerTx(h) ==
    [from |-> IF h % 2 = 1 THEN Wallet ELSE OtherWallet,
     to |-> IF h % 2 = 1 THEN "oct_a" ELSE Wallet,
     amount_raw |-> Some(h * MICRO + 500000), nonce |-> h, timestamp |-> 10 * h]

\* a pending entry with the hash h sent by f: other wallets send to this one
HistoryStagedTx(f, h) ==
    [from |-> f, to |-> IF f = Wallet THEN "oct_b" ELSE Wallet,
     amount |-> 7 * MICRO, nonce |-> h + 1, hash |-> h,
     timestamp |-> 10 * h + 5]

\* a pending pool of n entries of this wallet, its timestamps out of order
BulkSize == HistoryLimit + 1
BulkPool(n) ==
    [k \in 1..n |-> [from |-> Wallet, to |-> "oct_b", amount |-> MICRO,
                     nonce |-> k, hash |-> 100 + k,
                     timestamp |-> 7 + ((k * 7) % 53)]]

\* the answers to /tx/<hash>: the transaction, an exception of the fetcher,
\* or an OK answer without parsed_tx
DetailAnswers == {"tx", "throws", "empty"}

\* one of the transactionPromises (lines 121-128)
DetailResult(hash, answer) ==
    IF answer = "throws" THEN Undefined
    ELSE Some([hash |-> hash,
               data |-> [parsed_tx |-> IF answer = "tx" THEN Some(LedgerTx(hash))
                                       ELSE Undefined]])

\* a fetcher without the try/catch: one exception rejects Promise.all and
\* the request yields no data
DetailsFetcherAllOrNothing(hashes, answers) ==
    IF \E k \in DOMAIN hashes : answers[k] = "throws" THEN Undefined
    ELSE Some([k \in DOMAIN hashes |-> Val(DetailResult(hashes[k], answers[k]))])

\* the fetcher of the details request (lines 120-131): the results that are
\* not null, in the order of the hashes
DetailsFetcher(hashes, answers) ==
    LET settled == [k \in DOMAIN hashes |-> DetailResult(hashes[k], answers[k])]
        kept == SelectSeq(settled, LAMBDA result : IsDef(result))
    IN  Some([k \in DOMAIN kept |-> Val(kept[k])])

\* addressData?.recent_transactions?.map(tx => tx.hash) || []
TransactionHashes(ad) ==
    IF IsDef(ad)
    THEN [k \in DOMAIN Val(ad).recent_transactions |->
             Val(ad).recent_transactions[k].hash]
    ELSE <<>>

historyFrame == <<ledgerVars, balanceData, balanceRevalidate, keyOk, isLoading,
                  dialogVars, passes, events, now, appliedVars>>

\* the address request resolves with n references; a new list of hashes is
\* a new key of the details request, which has no data yet
AddressLoaded(n) ==
    LET ad == Some([recent_transactions |-> RefList(n)])
        sameKey == TransactionHashes(ad) = TransactionHashes(addressData)
    IN  /\ addressData' = ad
        /\ addressError' = Undefined
        /\ addressLoading' = FALSE
        /\ transactionDetails' = IF sameKey THEN transactionDetails ELSE Undefined
        /\ detailsLoading' = IF sameKey THEN detailsLoading ELSE n > 0
        /\ detailAnswers' = IF sameKey THEN detailAnswers ELSE <<>>
        /\ UNCHANGED <<stagingData, rendered, historyFrame>>

\* the address request fails: SWR keeps the data it has and sets the error
AddressFailed(kind) ==
    /\ addressError' = Some(FetcherError(ProxyPOST(UpstreamAddressFailure(kind))))
    /\ addressLoading' = FALSE
    /\ UNCHANGED <<addressData, transactionDetails, detailsLoading,
                   detailAnswers, stagingData, rendered, historyFrame>>

\* the details request resolves
DetailsLoaded(answers) ==
    /\ TransactionHashes(addressData) # <<>>
    /\ DOMAIN answers = DOMAIN TransactionHashes(addressData)
    /\ detailAnswers' = answers
    /\ transactionDetails' = DetailsFetcher(TransactionHashes(addressData), answers)
    /\ detailsLoading' = FALSE
    /\ UNCHANGED <<addressData, addressError, addressLoading,
                   stagingData, rendered, historyFrame>>

\* the pending-pool cache takes another snapshot of the pool
HistoryStagingLoaded(pool) ==
    /\ stagingData' = Some([staged_transactions |-> pool])
    /\ rendered' = UseWalletBalance(balanceData, stagingData')
    /\ UNCHANGED <<historyVars, historyFrame>>

\* an entry is prepended to the pending-pool cache
HistoryStage(e) ==
    /\ Len(StagedOf(stagingData)) < MaxPool
    /\ stagingData' = MutateStaging(stagingData, e)
    /\ rendered' = UseWalletBalance(balanceData, stagingData')
    /\ UNCHANGED <<historyVars, historyFrame>>

NextHistory ==
    \/ \E n \in 0..MaxRefs : AddressLoaded(n)
    \/ \E kind \in AddressFailKinds : AddressFailed(kind)
    \/ \E n \in 1..MaxRefs : \E answers \in [1..n -> DetailAnswers] :
          DetailsLoaded(answers)
    \/ \E pool \in {<<>>, BulkPool(BulkSize)} : HistoryStagingLoaded(pool)
    \/ \E f \in Senders, h \in 1..MaxRefs : HistoryStage(HistoryStagedTx(f, h))

SpecHistory == InitOracle /\ [][NextHistory]_vars

\* --------------------------------------------------------------------- C13
\* C13: no hash is emitted twice: the entries of the merged history have
\* pairwise distinct hashes, whatever the confirmed details and the pending
\* pool hold, also when the pending-pool cache holds a hash twice because an
\* optimistic injection was prepended to a cache that a refresh had filled
\* with that transaction.
C13_NoHashTwice ==
    LET history == UseTransactionHistory.history
    IN  \A i, j \in DOMAIN history :
           history[i].hash = history[j].hash => i = j

\* --------------------------------------------------------------------- C14
\* the details and the references the history is merged from
LoadedDetails == IF IsDef(transactionDetails) THEN Val(transactionDetails) ELSE <<>>
LoadedRefs == IF IsDef(addressData) THEN Val(addressData).recent_transactions ELSE <<>>
EntriesOf(history, hash) == {k \in DOMAIN history : history[k].hash = hash}

\* the hash of the detail d is also the hash of a pending entry of this wallet
AlsoPending(d) ==
    /\ IsDef(LoadedDetails[d].data.parsed_tx)
    /\ \E s \in DOMAIN StagedOf(stagingData) :
          /\ StagedOf(stagingData)[s].from = Wallet
          /\ StagedOf(stagingData)[s].hash = LoadedDetails[d].hash

\* the entry carries the fields of the confirmed record of the detail d
CarriesConfirmed(entry, d) ==
    LET tx == Val(LoadedDetails[d].data.parsed_tx)
    IN  /\ entry.time = tx.timestamp * 1000
        /\ entry.nonce = tx.nonce
        /\ entry.amount.units * MICRO + entry.amount.micros = Val(tx.amount_raw)
        /\ entry.to = (IF tx.to = Wallet THEN tx.from ELSE tx.to)
        /\ \E r \in DOMAIN LoadedRefs :
              /\ LoadedRefs[r].hash = LoadedDetails[d].hash
              /\ entry.epoch = Some(LoadedRefs[r].epoch)

\* C14: a hash that is both in the fetched confirmed details and in a pending
\* entry of this wallet has exactly one entry in the merged history, and
\* that entry has the timestamp, nonce, amount and counterparty of the detail
\* and the epoch of the confirmed reference, not the fields of the pending
\* entry.
C14_ConfirmedTakesPrecedence ==
    LET history == UseTransactionHistory.history
    IN  \A d \in DOMAIN LoadedDetails :
           AlsoPending(d) =>
              /\ Cardinality(EntriesOf(history, LoadedDetails[d].hash)) = 1
              /\ \A k \in EntriesOf(history, LoadedDetails[d].hash) :
                    CarriesConfirmed(history[k], d)

\* a confirmed transaction whose hash is also pending, shown once with its
\* epoch, next to a pending entry of another hash
C14_Witness ==
    LET history == UseTransactionHistory.history
    IN  /\ \E d \in DOMAIN LoadedDetails :
              /\ AlsoPending(d)
              /\ \E k \in DOMAIN history :
                    /\ history[k].hash = LoadedDetails[d].hash
                    /\ IsDef(history[k].epoch)
        /\ \E k \in DOMAIN history : ~IsDef(history[k].epoch)

\* --------------------------------------------------------------------- C15
\* the last address request was answered with the status 404
AnsweredNotFound ==
    \E kind \in AddressFailKinds \ {"timeout"} :
        addressError = Some(FetcherError(ProxyPOST(UpstreamAddressFailure(kind))))

\* the entries of the pending entries of this wallet, one per entry
OwnPendingEntries ==
    LET own == SelectSeq(StagedOf(stagingData), LAMBDA tx : tx.from = Wallet)
    IN  {[hash |-> own[k].hash, time |-> own[k].timestamp * 1000] :
            k \in DOMAIN own}

\* C15: when the address request fails with the status 404 and no address
\* data was ever loaded, useTransactionHistory reports no error and no
\* loading, and its history holds exactly the pending entries of this wallet.
C15_NotFoundIsEmptySuccess ==
    LET hook == UseTransactionHistory
    IN  (AnsweredNotFound /\ ~IsDef(addressData)) =>
           /\ ~IsDef(hook.error)
           /\ ~hook.isLoading
           /\ {[hash |-> hook.history[k].hash, time |-> hook.history[k].time] :
                  k \in DOMAIN hook.history} = OwnPendingEntries

ConfirmedHashes(history) ==
    {history[k].hash : k \in {j \in DOMAIN history : IsDef(history[j].epoch)}}

\* the pending entries sent by the wallet f with the hash h
StagedBy(f, h) ==
    {s \in DOMAIN StagedOf(stagingData) :
        /\ StagedOf(stagingData)[s].from = f
        /\ StagedOf(stagingData)[s].hash = h}

Candidates == FinalTransactions(transactionDetails, addressData, stagingData)

\* C18: the merged history runs from the newest timestamp to the oldest and
\* has at most 50 entries, all of them candidates; it has all candidates if
\* they are at most 50, and otherwise 50 of them, and no candidate left out
\* is newer than an entry that was kept.
C18_NewestFiftyInOrder ==
    LET history == UseTransactionHistory.history
        kept == {history[k] : k \in DOMAIN history}
    IN  /\ \A i, j \in DOMAIN history : i < j => history[i].time >= history[j].time
        /\ Len(history) <= 50
        /\ Len(history) = Min2(50, Len(Candidates))
        /\ \A k \in DOMAIN history : \E c \in DOMAIN Candidates : Candidates[c] = history[k]
        /\ \A c \in DOMAIN Candidates :
              \/ Candidates[c] \in kept
              \/ \A k \in DOMAIN history : Candidates[c].time <= history[k].time

\* more than 50 candidates that were not pushed in the order of their
\* timestamps, confirmed ones among them: the history has 50 entries and the
\* oldest candidate was left out
C18_Witness ==
    LET history == UseTransactionHistory.history
    IN  /\ Len(Candidates) > 50
        /\ Len(history) = 50
        /\ \E c \in DOMAIN Candidates : IsDef(Candidates[c].epoch)
        /\ \E c, d \in DOMAIN Candidates :
              c < d /\ Candidates[c].time < Candidates[d].time
        /\ \E c \in DOMAIN Candidates :
              /\ \A d \in DOMAIN Candidates : Candidates[c].time <= Candidates[d].time
              /\ \A k \in DOMAIN history : history[k] # Candidates[c]

\* --------------------------------------------------------------------- C19
\* C19: the progress counter of a pass over N recipients is monotonic: in
\* every state sent <= total; while a pass runs, a step that starts no pass
\* does not lower sent and raises it only by the size of the chunks collected
\* in that step; and the step in which the pass ends leaves (N, N), whatever
\* the outcomes, also when the dialog was closed and reset during the pass.
C19_ProgressMonotonic ==
    [][/\ progress'.sent <= progress'.total
       /\ \A p \in DOMAIN passes :
             (passes[p].pc = "sending" /\ Len(passes') = Len(passes)) =>
                /\ progress'.sent >= progress.sent
                /\ progress'.sent - progress.sent =
                      passes'[p].overallIndex - passes[p].overallIndex
                /\ passes'[p].pc = "done" =>
                      progress' = [sent |-> Len(passes[p].recipients),
                                   total |-> Len(passes[p].recipients)]]_vars

\* --------------------------------------------------------------------- C20
RECURSIVE Flatten(_)
Flatten(seqs) == IF seqs = <<>> THEN <<>> ELSE Head(seqs) \o Flatten(Tail(seqs))

\* the submissions of the pass that were sent and have not completed
InFlight(ps) == {i \in Calls(ps) : ps.calls[i].st \in {"inflight", "responded"}}

\* the batches keep the order of the list; all of them have 5 elements but
\* the last one, which has 1 to 5
ChunksOfFive(rs) ==
    LET batches == Batches(rs)
    IN  /\ Flatten(batches) = rs
        /\ \A k \in DOMAIN batches :
              IF k < Len(batches) THEN Len(batches[k]) = 5
              ELSE Len(batches[k]) \in 1..5

\* C20: the recipients of a pass are split in their order into chunks of 5
\* and a shorter last one (12 recipients into 5, 5 and 2), the calls that
\* have been dispatched are those of the first chunks of that partition, and
\* at most 5 submissions of one pass, all of one chunk, are in flight in any
\* state.
C20_ChunksOfFive ==
    /\ [k \in 1..3 |-> Len(Batches([i \in 1..12 |-> i])[k])] = <<5, 5, 2>>
    /\ Len(Batches([i \in 1..12 |-> i])) = 3
    /\ ChunksOfFive([i \in 1..12 |-> i])
    /\ \A p \in 1..Len(passes) :
          LET ps == passes[p]
              batches == Batches(ps.recipients)
          IN  /\ ChunksOfFive(ps.recipients)
              /\ Cardinality(InFlight(ps)) <= 5
              /\ \E k \in DOMAIN batches :
                    /\ InFlight(ps) \subseteq (5 * (k - 1) + 1)..(5 * (k - 1) + Len(batches[k]))
                    /\ \A i \in Calls(ps) :
                          i > 5 * (k - 1) + Len(batches[k]) => ps.calls[i].st = "idle"

\* a pass over 6 recipients with the 5 submissions of its first chunk in
\* flight and the sixth not dispatched
C20_Witness ==
    \E p \in 1..Len(passes) :
        /\ Len(passes[p].recipients) = 6
        /\ InFlight(passes[p]) = 1..5
        /\ passes[p].calls[6].st = "idle"

\* --------------------------------------------------------------------- C21
\* some submission that is in flight resolves: the ledger's answer, or the
\* answer that was under way, reaches sendTransaction
ResolveSome ==
    \E pi \in PassCalls : SubmitAccepted(pi[1], pi[2]) \/ Deliver(pi[1], pi[2])

\* ResolveSome is enabled exactly in the states in which a submission is in
\* flight: SubmitAccepted needs a call that waits for its answer, Deliver one
\* whose answer is under way, and both change the clock
SomeInFlight ==
    \E p \in 1..Len(passes) : \E i \in 1..Len(passes[p].calls) :
        passes[p].calls[i].st \in {"inflight", "responded"}

\* weak fairness of ResolveSome, WF_vars(ResolveSome), written out with the
\* enabling condition above: no dispatched submission stays in flight for ever
ResolveFair == []<>(~SomeInFlight) \/ []<><<ResolveSome>>_vars

\* the dialog with its close control and its reset, lists of one recipient
\* and of two chunks, and submissions that the ledger accepts or rejects
NextLive ==
    \/ BalanceRefresh
    \/ StagingRefresh
    \/ OpenDialog
    \/ CloseDialog
    \/ ResetDialog
    \/ \E n \in {1, MaxIntents} : HandleBatchImport(RecipientList(n))
    \/ HandleNext
    \/ HandleConfirm
    \/ \E pi \in PassCalls : SubmitAccepted(pi[1], pi[2])
    \/ \E pi \in PassCalls : RelayRefuse(pi[1], pi[2], "rejected")

\* the program when every dispatched submission resolves in the end
SpecLive == Init /\ [][NextLive]_vars /\ ResolveFair

\* the pass p has ended: every recipient was dispatched and has its outcome,
\* and the dialog shows the result step with the N outcomes
PassEnded(p) ==
    /\ Len(passes) >= p
    /\ passes[p].pc = "done"
    /\ \A i \in Calls(passes[p]) : passes[p].calls[i].st = "done"
    /\ Len(passes[p].allExecutedResults) = Len(passes[p].recipients)
    /\ step = "result"
    /\ results = passes[p].allExecutedResults

\* C21: a pass is never cancelled.  If every dispatched submission resolves
\* in the end, a pass that was started dispatches all its recipients, chunk
\* after chunk, and reaches the result step with its N outcomes, also when
\* the dialog is closed or reset while the pass runs.
C21_PassRunsToCompletion ==
    \A p \in 1..MaxIntents :
        (Len(passes) >= p /\ passes[p].pc = "sending") ~> PassEnded(p)

\* a pass that has ended with its outcomes although the dialog was closed
\* and reset while it ran: the reset has set the total to 0
C21_Witness ==
    \E p \in 1..Len(passes) :
        /\ PassEnded(p)
        /\ ~open
        /\ progress.total = 0
        /\ progress.sent = Len(passes[p].recipients)

\* --------------------------------------------------------------------- C22
\* the revalidation of /balance asked by mutate(balanceKey) fails: the
\* fetcher throws and SWR keeps the data it has
BalanceRefreshFails ==
    /\ balanceRevalidate
    /\ balanceRevalidate' = FALSE
    /\ UNCHANGED <<balanceData, stagingData, rendered, ledgerVars, dialogVars,
                   keyOk, historyVars, appliedVars, isLoading, passes, events, now>>

\* one pass of a short list with every shape of answer, and revalidations
\* of the balance that succeed or fail
NextRefresh ==
    \/ NextShapes
    \/ FinaliseEpoch
    \/ BalanceRefreshFails

SpecRefresh == Init /\ [][NextRefresh]_vars

\* C22: the step in which a submission ends in a Success marks the balance
\* cache of the wallet for a refresh and returns the outcome at once, the
\* cache still holding what it held; and the outcome stays that Success in
\* every later step, whether the refresh completes, fails or never happens.
C22_SuccessDoesNotAwaitRefresh ==
    [][\A pi \in PassCalls :
          LET p == pi[1]
              i == pi[2]
              old == passes[p].calls[i]
              new == passes'[p].calls[i]
          IN  /\ (old.st # "done" /\ new.st = "done"
                                  /\ new.result.status = "fulfilled"
                                  /\ new.result.value.success) =>
                    /\ balanceRevalidate'
                    /\ balanceData' = balanceData
              /\ old.st = "done" => new = old]_vars

\* a submission has succeeded and the refresh of the balance it asked for
\* is over without the cache holding the ledger's nonce, the outcome being
\* the Success it was
C22_Witness ==
    /\ ~balanceRevalidate
    /\ IsDef(balanceData)
    /\ Val(balanceData).nonce # Some(srvNonce)
    /\ \E p \in 1..Len(passes) : \E i \in Calls(passes[p]) :
          /\ Succeeded(passes[p], i)
          /\ passes[p].calls[i].result.value = Success(HashOf(p, i))

\* --------------------------------------------------------------------- C23
\* the lists of one recipient a batch import can produce from a line
\* "<address> <amount>": a malformed address, amounts that are no numerals
\* ("abc", "2x"), amounts that are not positive ("0", "-1"), an amount above
\* the balance ("9"), and a well-formed line
FormAmounts ==
    {<<"a", "b", "c">>, <<"2", "x">>, <<"0">>, <<"-", "1">>, <<"9">>, <<"2">>}
FormLists ==
    {<<[amount |-> <<"1">>, address |-> "bad"]>>}
        \cup {<<[amount |-> text, address |-> "oct_a"]>> : text \in FormAmounts}

\* the dialog from the form to the submissions, with those lists
NextForm ==
    \/ BalanceRefresh
    \/ StagingRefresh
    \/ SpendElsewhere
    \/ OpenDialog
    \/ \E rs \in FormLists : HandleBatchImport(rs)
    \/ HandleNext
    \/ HandleBack
    \/ HandleConfirm
    \/ \E pi \in PassCalls : SubmitAccepted(pi[1], pi[2])

SpecForm == Init /\ [][NextForm]_vars

\* the text is a numeral and nothing else
IsNumeric(text) ==
    LET unsigned == IF text # <<>> /\ text[1] = "-" THEN Tail(text) ELSE text
    IN  unsigned # <<>> /\ LeadingDigits(unsigned) = unsigned

\* a recipient that fails the validation, for a sender with that balance
FailsValidation(recipient, balance) ==
    \/ ~AddressRegexTest(recipient.address)
    \/ ~IsNumeric(recipient.amount)
    \/ Val(ParseFloat(recipient.amount)) <= 0
    \/ Val(ParseFloat(recipient.amount)) > balance

\* C23: no submission request is ever sent to the relay for a recipient
\* with a malformed address, an amount that is not a number or not
\* positive, or an amount above the balance.
C23_InvalidNeverSubmitted ==
    \A p \in 1..Len(passes) : \A i \in Calls(passes[p]) :
        FailsValidation(passes[p].recipients[i], passes[p].balance) =>
            ~Signed(passes[p], i)

\* --------------------------------------------------------------------- C24
\* the relay as a request handler: what POST does with one request and one
\* behaviour of the upstream server
MaxRelayed == 2
RpcUrl == "https://rpc"

\* the body of the request to the relay: {method, endpoint, rpcUrl, payload}
RelayRequest(method, endpoint, rpcUrl, payload) ==
    [method |-> method, endpoint |-> endpoint, rpcUrl |-> rpcUrl,
     payload |-> payload]

\* the request fetcher builds for its key [endpoint, rpcUrl, payload?]
FetcherRequest(endpoint, rpcUrl, payload) ==
    RelayRequest(IF IsDef(payload) THEN "POST" ELSE "GET", endpoint, rpcUrl, payload)

\* what reaches the relay: a body that is no JSON (Undefined), or a request
\* of a client with or without its endpoint and rpcUrl
RelayInputs ==
    {Undefined} \cup
    {Some(FetcherRequest(endpoint, rpcUrl, payload)) :
        endpoint \in {Undefined, Some("/balance")},
        rpcUrl \in {Undefined, Some(""), Some(RpcUrl)},
        payload \in {Undefined, Some("signedTransaction")}}

\* a body as it travels: JSON (an object with the members that are set) or
\* a text that is no JSON, possibly empty
RawBody(json, error, details, data, text) ==
    [json |-> json, error |-> error, details |-> details, data |-> data,
     text |-> text]
JsonBody(error, details, data) == RawBody(TRUE, error, details, data, "")
TextBody(text) == RawBody(FALSE, Undefined, Undefined, Undefined, text)

\* what the upstream server does with a forwarded request: it answers with
\* a status and a body, or fetch throws (message)
UpstreamAnswer(threw, message, status, body) ==
    [threw |-> threw, message |-> message, status |-> status, body |-> body]
UpstreamAnswers ==
    {UpstreamAnswer(FALSE, "", 200, JsonBody(Undefined, Undefined, Some("data"))),
     UpstreamAnswer(FALSE, "", 200, TextBody("<html>")),
     UpstreamAnswer(FALSE, "", 400, JsonBody(Some("Invalid nonce"), Undefined, Undefined)),
     UpstreamAnswer(FALSE, "", 503, JsonBody(Some("Overloaded"), Undefined, Undefined)),
     UpstreamAnswer(FALSE, "", 502, TextBody("Bad Gateway")),
     UpstreamAnswer(FALSE, "", 404, TextBody("")),
     UpstreamAnswer(TRUE, "The operation was aborted due to timeout", 0, TextBody("")),
     UpstreamAnswer(TRUE, "fetch failed", 0, TextBody(""))}

\* NextResponse.json(value, {status})
NextResponseJson(status, body) == [status |-> status, body |-> body]

\* the catch block of POST
RelayCatch(message) ==
    NextResponseJson(500, JsonBody(Some(ProxyErrorText), Some(message), Undefined))

\* !value of an optional string
Falsy(value) == ~IsDef(value) \/ Val(value) = ""

\* POST(request) when the upstream server behaves as up: the call the relay
\* makes upstream, if it makes one, the answer it gets and its response
RelayPOST(input, up) ==
    IF ~IsDef(input)
    THEN [request |-> input, upstream |-> Undefined, answer |-> Undefined,
          response |-> RelayCatch("Unexpected end of JSON input")]
    ELSE IF Falsy(Val(input).rpcUrl) \/ Falsy(Val(input).endpoint)
    THEN [request |-> input, upstream |-> Undefined, answer |-> Undefined,
          response |-> NextResponseJson(400,
                           JsonBody(Some("Missing rpcUrl or endpoint"),
                                    Undefined, Undefined))]
    ELSE LET r == Val(input)
             call == [method |-> r.method,
                      url |-> <<Val(r.rpcUrl), Val(r.endpoint)>>,
                      body |-> IF r.method = "POST" THEN r.payload ELSE Undefined]
             errorJson == IF up.body.json THEN up.body
                          ELSE JsonBody(Some(IF up.body.text # "" THEN up.body.text
                                             ELSE "RPC Error"),
                                        Undefined, Undefined)
         IN  [request |-> input, upstream |-> Some(call), answer |-> Some(up),
              response |->
                 IF up.threw THEN RelayCatch(up.message)
                 ELSE IF ~(up.status \in 200..299)
                 THEN NextResponseJson(up.status, errorJson)
                 ELSE IF up.body.json THEN NextResponseJson(200, up.body)
                 ELSE RelayCatch("Unexpected token < in JSON")]

\* one request is handled by the relay
ProxyRequest(input, up) ==
    /\ Len(relayed) < MaxRelayed
    /\ relayed' = Append(relayed, RelayPOST(input, up))
    /\ UNCHANGED <<ledgerVars, cacheVars, dialogVars, keyOk, historyVars, isLoading,
                   passes, events, now, parsedAmounts, directCalls>>

NextRelay == \E input \in RelayInputs, up \in UpstreamAnswers : ProxyRequest(input, up)

SpecRelay == Init /\ [][NextRelay]_vars

\* C24: the relay forwards the method to rpcUrl+endpoint with the payload
\* unchanged; an upstream error response is answered with the same status
\* and the upstream body; a request without rpcUrl or endpoint is answered
\* with status 400 and no upstream call; an exception or an upstream timeout
\* is answered with status 500.
C24_RelayTransparent ==
    \A k \in 1..Len(relayed) :
        LET e == relayed[k]
        IN  IF ~IsDef(e.request) THEN e.response.status = 500
            ELSE IF Falsy(Val(e.request).rpcUrl) \/ Falsy(Val(e.request).endpoint)
            THEN e.response.status = 400 /\ ~IsDef(e.upstream)
            ELSE /\ IsDef(e.upstream)
                 /\ Val(e.upstream).method = Val(e.request).method
                 /\ Val(e.upstream).url = <<Val(Val(e.request).rpcUrl),
                                            Val(Val(e.request).endpoint)>>
                 /\ Val(e.upstream).body = Val(e.request).payload
                 /\ Val(e.answer).threw => e.response.status = 500
                 /\ (~Val(e.answer).threw /\ ~(Val(e.answer).status \in 200..299)) =>
                        /\ e.response.status = Val(e.answer).status
                        /\ e.response.body = Val(e.answer).body

\* --------------------------------------------------------------------- C25
\* the two strings of an amount of m micro-units: its decimal string, the
\* shortest decimal numeral of m / 1,000,000 (String(number) in JS), and its
\* integer micro-unit string
MaxParsed == 2

RECURSIVE TrimZeros(_)
TrimZeros(ds) ==
    IF ds # <<>> /\ ds[Len(ds)] = "0" THEN TrimZeros(SubSeq(ds, 1, Len(ds) - 1))
    ELSE ds

\* the six digits of f micro-units after the point
SixDigits(f) ==
    LET ds == DigitsOf(f)
    IN  [k \in 1..(6 - Len(ds)) |-> "0"] \o ds

DecimalString(m) ==
    IF m % MICRO = 0 THEN DigitsOf(m \div MICRO)
    ELSE DigitsOf(m \div MICRO) \o <<".">> \o TrimZeros(SixDigits(m % MICRO))

MicroString(m) == DigitsOf(m)

\* amounts in micro-units: fractions of a unit, whole units, and both
AmountSamples ==
    {1, 250000, 500000, 1000000, 1500000, 2000000, 10000000, 10500000,
     12345678, 100000000}

\* whole units a sender submits
SubmittedUnits == {1, 2, 10}

\* the entry merged history shows for the transaction that sendTransaction
\* injects into the pending pool for an amount of units OCT
ShownAfterSubmit(units) ==
    LET newStagedTx == NewStagedTx("oct_a", units, 0,
                                   [from |-> Wallet, to_ |-> "oct_a",
                                    amount |-> AmountRaw(units), nonce |-> 1,
                                    timestamp |-> 0], 1, 0)
    IN  StagedEntry(newStagedTx).amount

\* parseAmount is applied to the two strings of an amount
ParseBoth(m, units) ==
    /\ Len(parsedAmounts) < MaxParsed
    /\ parsedAmounts' = Append(parsedAmounts,
           [micros |-> m,
            decimal |-> ParseAmountStr(DecimalString(m)),
            micro |-> ParseAmountStr(MicroString(m)),
            submitted |-> units,
            shown |-> ShownAfterSubmit(units),
            shownStr |-> ParseAmountStr(MicroString(AmountRaw(units)))])
    /\ UNCHANGED <<ledgerVars, cacheVars, dialogVars, keyOk, historyVars, isLoading,
                   passes, events, now, relayed, directCalls>>

NextAmounts == \E m \in AmountSamples, units \in SubmittedUnits : ParseBoth(m, units)

SpecAmounts == Init /\ [][NextAmounts]_vars

\* C25: parseAmount gives the same value for the decimal string and for the
\* integer micro-unit string of every amount, and the amount shown for a
\* submission is the amount submitted.
C25_RepresentationIndependent ==
    \A k \in 1..Len(parsedAmounts) :
        /\ parsedAmounts[k].decimal = parsedAmounts[k].micro
        /\ parsedAmounts[k].shown = [units |-> parsedAmounts[k].submitted, micros |-> 0]
        /\ parsedAmounts[k].shownStr = parsedAmounts[k].submitted * MICRO

\* --------------------------------------------------------------------- C26
\* the calls of sendTransaction that return in this step, by their outcome
ReturningNow(success) ==
    {pi \in (1..MaxIntents) \X (1..MaxIntents) :
        /\ pi[1] <= Len(passes')
        /\ pi[2] <= Len(passes'[pi[1]].calls)
        /\ Len(passes) < pi[1] \/ passes[pi[1]].calls[pi[2]].st # "done"
        /\ passes'[pi[1]].calls[pi[2]].st = "done"
        /\ passes'[pi[1]].calls[pi[2]].result.value.success = success}

\* C26: a call of sendTransaction that ends in Failure leaves the
\* pending-pool cache and the balance cache as they were: in a step in which
\* calls return, the pending-pool cache gains one entry for each Success and
\* none for a Failure, the balance data is untouched, and without a Success
\* no refresh is asked for.
C26_FailureLeavesCaches ==
    [][(ReturningNow(TRUE) # {} \/ ReturningNow(FALSE) # {}) =>
          /\ Len(StagedOf(stagingData')) =
                Len(StagedOf(stagingData)) + Cardinality(ReturningNow(TRUE))
          /\ balanceData' = balanceData
          /\ ReturningNow(TRUE) = {} =>
                /\ stagingData' = stagingData
                /\ balanceRevalidate' = balanceRevalidate]_vars

\* a submission was refused by the ledger with an error status, and the
\* caches hold no pending entry and no request for a refresh
C26_Witness ==
    /\ ~balanceRevalidate
    /\ IsDef(stagingData)
    /\ StagedOf(stagingData) = <<>>
    /\ \E p \in 1..Len(passes) : \E i \in Calls(passes[p]) :
          /\ Failed(passes[p], i)
          /\ passes[p].calls[i].up = Some("http_error")

\* --------------------------------------------------------------------- C27
\* C27: isLoading of useSendTransaction is true in every state in which a
\* submission is still in flight; it is false only when none is.
C27_LoadingWhileInFlight == SomeInFlight => isLoading

\* --------------------------------------------------------------------- C28
\* sendTransaction called outside the dialog, with or without its third
\* argument: the calls so far, each with its _nonce and the call as it stands
\* at its first await
MaxDirect == 2
ExplicitNonces == {Some(n) : n \in 0..MaxNonce}

DirectCall(_nonce) ==
    /\ Len(directCalls) < MaxDirect
    /\ directCalls' = Append(directCalls,
           [_nonce |-> _nonce,
            hookNonce |-> rendered.nonce,
            call |-> SendTransactionSync("oct_a", 1, _nonce, rendered.nonce,
                                         rendered.balance, keyOk, now)])
    /\ UNCHANGED <<ledgerVars, cacheVars, dialogVars, keyOk, historyVars, isLoading,
                   passes, events, now, relayed, parsedAmounts>>

\* the ledger has confirmed a transaction of the wallet made elsewhere
ConfirmElsewhere ==
    /\ srvNonce < MaxNonce
    /\ srvNonce' = srvNonce + 1
    /\ UNCHANGED <<srvPool, srvBalance, cacheVars, dialogVars, keyOk, historyVars,
                   isLoading, passes, events, now, appliedVars>>

NextDirect ==
    \/ BalanceRefresh
    \/ ConfirmElsewhere
    \/ \E _nonce \in {Undefined} \cup ExplicitNonces : DirectCall(_nonce)

SpecDirect == Init /\ [][NextDirect]_vars

\* C28: a call with an explicit _nonce >= 0 signs exactly _nonce, a call
\* without one signs the effective nonce + 1, and so two calls with distinct
\* explicit _nonce never sign the same nonce.
C28_ExplicitNonceSigned ==
    /\ \A k \in 1..Len(directCalls) :
          LET d == directCalls[k]
          IN  IsDef(d.call.tx) =>
                 Val(d.call.tx).nonce =
                    IF IsDef(d._nonce) THEN Val(d._nonce) ELSE d.hookNonce + 1
    /\ \A j, k \in 1..Len(directCalls) :
          (/\ IsDef(directCalls[j]._nonce) /\ IsDef(directCalls[k]._nonce)
           /\ directCalls[j]._nonce # directCalls[k]._nonce
           /\ IsDef(directCalls[j].call.tx) /\ IsDef(directCalls[k].call.tx)) =>
              Val(directCalls[j].call.tx).nonce # Val(directCalls[k].call.tx).nonce

====
